---- MODULE Spec2Model ----
(***************************************************************************)
(* Fund scoring and filtering engine of the Investment Selection Tool:     *)
(* the category-relative composite score of the analysis view              *)
(* (pages/5_Data_Analysis.py), the formula filter                          *)
(* (utils/formula_engine.py) and the platform filter                       *)
(* (utils/hub24_filter.py).                                                *)
(*                                                                         *)
(* Numbers are exact rationals [nan, n, d]; a missing value (NaN / None)   *)
(* is the value NaN.  A DataFrame is [isNone, columns, rows]; a row is     *)
(* [index, v] with v a function from column names to cell values.          *)
(***************************************************************************)
EXTENDS Integers, Sequences, FiniteSets, TLC

VARIABLES
    combined_data,       \* st.session_state.combined_data
    hub24_apir_codes,    \* st.session_state.hub24_apir_codes (list of codes)
    hub24_filtered,      \* st.session_state.hub24_filtered
    filtered_selection,  \* st.session_state.filtered_selection
    formula,             \* st.session_state.formula
    formula_result,      \* outcome of the last apply_formula call
    filter_result,       \* outcome of the last filter_investments_by_apir call
    current_data_averages, \* category averages computed by the analysis view
    selection_df,        \* table built by the analysis view
    hub24_pdf,           \* the document given to the file uploader of the platform page
    extract_result,      \* outcome of the last extract_apir_codes_from_pdf call
    uploaded_file,       \* the file given to the file uploader of a load page
    validation,          \* outcome of the last validate_csv call
    load_result,         \* table returned by the last load_and_process_csv call
    dataframes,          \* st.session_state.dataframes
    asset_class_averages, \* st.session_state.asset_class_averages
    last_op,             \* the handler that ran last
    sliders,             \* the six sliders of the Advanced Filters tab
    recommended_portfolio, \* st.session_state.recommended_portfolio
    portfolio_allocations, \* st.session_state.portfolio_allocations
    session_state,       \* the keys written by utils/data_storage.py
    store_log,           \* per key, the value given to the last store_dataframe call
    objects,             \* the tables alive during a call of a library function
    call                 \* the last call of a library function

vars == <<combined_data, hub24_apir_codes, hub24_filtered, filtered_selection,
          formula, formula_result, filter_result, current_data_averages,
          selection_df, hub24_pdf, extract_result, uploaded_file, validation,
          load_result, dataframes, asset_class_averages, last_op, sliders,
          recommended_portfolio, portfolio_allocations, session_state,
          store_log, objects, call>>

extractVars == <<hub24_pdf, extract_result>>

loaderVars == <<uploaded_file, validation, load_result, dataframes,
                asset_class_averages>>

portfolioVars == <<recommended_portfolio, portfolio_allocations>>

storageVars == <<session_state, store_log>>

heapVars == <<objects, call>>

-----------------------------------------------------------------------------
(* Bounds                                                                  *)

MaxRows == 2          \* rows of a table of the analysis view
MaxFormulaRows == 2   \* rows of a table given to the formula filter
MaxFilterRows == 2    \* rows of a table given to the platform filter
MaxCodes == 2         \* length of a code list
MaxPages == 2         \* pages of an uploaded document
MaxLoadRows == 2      \* rows of a file given to the loader
MaxValidateRows == 5  \* rows of a file given to the validation
MaxStrategyRows == 2  \* rows of a table given to a preset strategy
MaxWorkflowRows == 2  \* rows of a table loaded during a session
MaxAdvancedRows == 2  \* rows of a table given to the advanced filters
MaxFunds == 2         \* funds of the table shown with the portfolio
MaxStoredFrames == 2  \* distinct tables of each size given to the storage

-----------------------------------------------------------------------------
(* Exact rational arithmetic standing for the float cells                  *)

Abs(x) == IF x < 0 THEN -x ELSE x

RECURSIVE GCD(_, _)
GCD(a, b) == IF b = 0 THEN a ELSE GCD(b, a % b)

NaN == [nan |-> TRUE, n |-> 0, d |-> 1]

Rat(n, d) ==
    LET s == IF d < 0 THEN -1 ELSE 1
        g == GCD(Abs(n), Abs(d))
    IN  [nan |-> FALSE, n |-> (s * n) \div g, d |-> (s * d) \div g]

isna(x) == x.nan

RAdd(a, b) == IF a.nan \/ b.nan THEN NaN ELSE Rat(a.n * b.d + b.n * a.d, a.d * b.d)
RSub(a, b) == IF a.nan \/ b.nan THEN NaN ELSE Rat(a.n * b.d - b.n * a.d, a.d * b.d)
RNeg(a)    == IF a.nan THEN NaN ELSE Rat(-a.n, a.d)
RDivInt(a, k) == IF a.nan THEN NaN ELSE Rat(a.n, a.d * k)

\* comparisons; any comparison with NaN is False, != with NaN is True
RLt(a, b) == ~a.nan /\ ~b.nan /\ a.n * b.d < b.n * a.d
RLe(a, b) == ~a.nan /\ ~b.nan /\ a.n * b.d <= b.n * a.d
REq(a, b) == ~a.nan /\ ~b.nan /\ a.n * b.d = b.n * a.d

RECURSIVE RSum(_)
RSum(s) == IF s = <<>> THEN Rat(0, 1) ELSE RAdd(Head(s), RSum(Tail(s)))

-----------------------------------------------------------------------------
(* Column names                                                            *)

COL_NAME   == "Name"
COL_APIR   == "APIR Code"
COL_CAT    == "Morningstar Category"
COL_RETURN == "3 Years Annualised (%)"
COL_FEE    == "Investment Management Fee(%)"
COL_BETA   == "3 Year Beta"
COL_STDEV  == "3 Year Standard Deviation"
COL_SHARPE == "3 Year Sharpe Ratio"

COL_BETA_DIFF   == "Category Avg Beta - Fund Beta"
COL_SHARPE_DIFF == "Fund Sharpe - Category Avg Sharpe"
COL_STDEV_DIFF  == "Fund StdDev - Category Avg StdDev"
COL_COMPOSITE   == "Composite Score"

NUMERIC_COLUMNS == {COL_RETURN, COL_FEE, COL_BETA, COL_STDEV, COL_SHARPE}

AllColumns == {COL_NAME, COL_APIR, COL_CAT, COL_RETURN, COL_FEE,
               COL_BETA, COL_STDEV, COL_SHARPE}

-----------------------------------------------------------------------------
(* DataFrames                                                              *)

NoneDF == [isNone |-> TRUE, columns |-> {}, rows |-> <<>>]

DataFrame(cols, rows) == [isNone |-> FALSE, columns |-> cols, rows |-> rows]

\* pd.DataFrame()
EmptyDataFrame == DataFrame({}, <<>>)

\* df.empty
empty(df) == df.columns = {} \/ df.rows = <<>>

MkRow(i, name, apir, cat, ret, fee, beta, std, sharpe) ==
    [index |-> i,
     v |-> (COL_NAME :> name) @@ (COL_APIR :> apir) @@ (COL_CAT :> cat) @@
           (COL_RETURN :> ret) @@ (COL_FEE :> fee) @@ (COL_BETA :> beta) @@
           (COL_STDEV :> std) @@ (COL_SHARPE :> sharpe)]

\* the cells of one column, in row order
RECURSIVE ColumnValues(_, _)
ColumnValues(rows, col) ==
    IF rows = <<>> THEN <<>>
    ELSE <<Head(rows).v[col]>> \o ColumnValues(Tail(rows), col)

\* row with one more cell
WithCell(row, col, val) == [row EXCEPT !.v = (col :> val) @@ row.v]

-----------------------------------------------------------------------------
(* Analysis view: category averages, differentials and Composite Score     *)
(* (pages/5_Data_Analysis.py)                                              *)

\* the table the analysis view shows as current
display_data ==
    IF ~filtered_selection.isNone /\ ~empty(filtered_selection)
        THEN filtered_selection
    ELSE IF ~hub24_filtered.isNone /\ ~empty(hub24_filtered)
        THEN hub24_filtered
    ELSE combined_data

avg_fields == {COL_BETA, COL_STDEV, COL_SHARPE}

\* the non-missing cells of one column among the rows of one category
GroupValues(rows, cat, col) ==
    SelectSeq(ColumnValues(SelectSeq(rows, LAMBDA r : r.v[COL_CAT] = cat), col),
              LAMBDA x : ~isna(x))

\* variant: missing cells counted as zero, the divisor is the size of the category
GroupMean_countMissing(rows, cat, col) ==
    LET all == SelectSeq(rows, LAMBDA r : r.v[COL_CAT] = cat)
    IN  IF all = <<>> THEN NaN ELSE RDivInt(RSum(GroupValues(rows, cat, col)), Len(all))

\* pandas mean with skipna: mean of the non-missing cells, NaN if there is none
GroupMean(rows, cat, col) ==
    LET vals == GroupValues(rows, cat, col)
    IN  IF vals = <<>> THEN NaN ELSE RDivInt(RSum(vals), Len(vals))

Categories(rows) == {rows[i].v[COL_CAT] : i \in DOMAIN rows}

NoAverages == [isNone |-> TRUE, columns |-> {}, mean |-> <<>>]

\* subset_for_avg.groupby('Morningstar Category').mean(numeric_only=True)
GroupbyMean(data) ==
    LET existing_fields == avg_fields \cap data.columns
    IN  IF ~data.isNone /\ ~empty(data) /\ existing_fields # {}
           /\ COL_CAT \in data.columns
        THEN [isNone |-> FALSE, columns |-> existing_fields,
              mean |-> [c \in Categories(data.rows) |->
                          [f \in existing_fields |-> GroupMean(data.rows, c, f)]]]
        ELSE NoAverages

\* df.groupby('Morningstar Category').mean(numeric_only=True), None for no
\* table, an empty table or a table without the category column
calculate_asset_class_averages(df) ==
    IF df.isNone \/ empty(df) \/ COL_CAT \notin df.columns THEN NoAverages
    ELSE [isNone |-> FALSE, columns |-> NUMERIC_COLUMNS \cap df.columns,
          mean |-> [c \in Categories(df.rows) |->
                      [f \in NUMERIC_COLUMNS \cap df.columns |->
                          GroupMean(df.rows, c, f)]]]

\* category_betas / category_sharpes / category_stdevs: category -> average
CategoryDict(averages, col) ==
    [c \in DOMAIN averages.mean |-> averages.mean[c][col]]

calc_beta_diff(row, category_betas) ==
    IF isna(row.v[COL_BETA]) THEN NaN
    ELSE LET category == row.v[COL_CAT]
         IN  IF category \in DOMAIN category_betas /\ ~isna(category_betas[category])
             THEN RSub(category_betas[category], row.v[COL_BETA])
             ELSE NaN

calc_sharpe_diff(row, category_sharpes) ==
    IF isna(row.v[COL_SHARPE]) THEN NaN
    ELSE LET category == row.v[COL_CAT]
         IN  IF category \in DOMAIN category_sharpes /\ ~isna(category_sharpes[category])
             THEN RSub(row.v[COL_SHARPE], category_sharpes[category])
             ELSE NaN

calc_stdev_diff(row, category_stdevs) ==
    IF isna(row.v[COL_STDEV]) THEN NaN
    ELSE LET category == row.v[COL_CAT]
         IN  IF category \in DOMAIN category_stdevs /\ ~isna(category_stdevs[category])
             THEN RSub(row.v[COL_STDEV], category_stdevs[category])
             ELSE NaN

\* variant: the StdDev term enters negated, as on the Assumptions page
calc_composite_score_negStdev(row) ==
    LET stdev_diff  == row.v[COL_STDEV_DIFF]
        sharpe_diff == row.v[COL_SHARPE_DIFF]
        beta_diff   == row.v[COL_BETA_DIFF]
    IN  IF isna(stdev_diff) \/ isna(sharpe_diff) \/ isna(beta_diff) THEN NaN
        ELSE RAdd(RAdd(RNeg(RDivInt(stdev_diff, 10)), sharpe_diff), beta_diff)

\* variant: a missing differential counts as zero
calc_composite_score_fillZero(row) ==
    LET z(x) == IF isna(x) THEN Rat(0, 1) ELSE x
    IN  RAdd(RAdd(RDivInt(z(row.v[COL_STDEV_DIFF]), 10), z(row.v[COL_SHARPE_DIFF])),
             z(row.v[COL_BETA_DIFF]))

calc_composite_score(row) ==
    LET stdev_diff  == row.v[COL_STDEV_DIFF]
        sharpe_diff == row.v[COL_SHARPE_DIFF]
        beta_diff   == row.v[COL_BETA_DIFF]
    IN  IF isna(stdev_diff) \/ isna(sharpe_diff) \/ isna(beta_diff) THEN NaN
        ELSE RAdd(RAdd(RDivInt(stdev_diff, 10), sharpe_diff), beta_diff)

\* selection_df[newcol] = cells, cells given per row position
AddColumn(df, newcol, cells) ==
    DataFrame(df.columns \cup {newcol},
              [i \in DOMAIN df.rows |-> WithCell(df.rows[i], newcol, cells[i])] \o <<>>)

\* a differential column is computed per row when the metric, the category
\* column and the averages exist, is all-missing when only the averages are
\* unavailable, and is not added when the metric or the category is absent
AddBetaDiff(df, averages) ==
    IF COL_BETA \in df.columns /\ COL_CAT \in df.columns
    THEN IF ~averages.isNone /\ COL_BETA \in averages.columns
         THEN AddColumn(df, COL_BETA_DIFF,
                  [i \in DOMAIN df.rows |->
                      calc_beta_diff(df.rows[i], CategoryDict(averages, COL_BETA))])
         ELSE AddColumn(df, COL_BETA_DIFF, [i \in DOMAIN df.rows |-> NaN])
    ELSE df

AddSharpeDiff(df, averages) ==
    IF COL_SHARPE \in df.columns /\ COL_CAT \in df.columns
    THEN IF ~averages.isNone /\ COL_SHARPE \in averages.columns
         THEN AddColumn(df, COL_SHARPE_DIFF,
                  [i \in DOMAIN df.rows |->
                      calc_sharpe_diff(df.rows[i], CategoryDict(averages, COL_SHARPE))])
         ELSE AddColumn(df, COL_SHARPE_DIFF, [i \in DOMAIN df.rows |-> NaN])
    ELSE df

AddStdevDiff(df, averages) ==
    IF COL_STDEV \in df.columns /\ COL_CAT \in df.columns
    THEN IF ~averages.isNone /\ COL_STDEV \in averages.columns
         THEN AddColumn(df, COL_STDEV_DIFF,
                  [i \in DOMAIN df.rows |->
                      calc_stdev_diff(df.rows[i], CategoryDict(averages, COL_STDEV))])
         ELSE AddColumn(df, COL_STDEV_DIFF, [i \in DOMAIN df.rows |-> NaN])
    ELSE df

AddCompositeColumn(df) ==
    IF {COL_STDEV_DIFF, COL_SHARPE_DIFF, COL_BETA_DIFF} \subseteq df.columns
    THEN AddColumn(df, COL_COMPOSITE,
             [i \in DOMAIN df.rows |-> calc_composite_score(df.rows[i])])
    ELSE AddColumn(df, COL_COMPOSITE, [i \in DOMAIN df.rows |-> NaN])

\* variant: the differentials are taken against the averages stored at load
BuildSelectionDf_storedAverages(data) ==
    LET averages == asset_class_averages
    IN  AddCompositeColumn(
            AddStdevDiff(AddSharpeDiff(AddBetaDiff(data, averages), averages), averages))

\* the table of the Current Data View tab
BuildSelectionDf(data) ==
    LET averages == GroupbyMean(data)
    IN  AddCompositeColumn(
            AddStdevDiff(AddSharpeDiff(AddBetaDiff(data, averages), averages), averages))

\* a run of the analysis page; it stops early when there is no data
RenderAnalysis ==
    /\ ~combined_data.isNone /\ ~empty(combined_data)
    /\ current_data_averages' = GroupbyMean(display_data)
    /\ selection_df' = BuildSelectionDf(display_data)
    /\ last_op' = "analysis"
    /\ UNCHANGED <<sliders, portfolioVars, storageVars, heapVars>>
    /\ UNCHANGED <<combined_data, hub24_apir_codes, hub24_filtered,
                   filtered_selection, formula, formula_result, filter_result>>
    /\ UNCHANGED <<extractVars, loaderVars>>

-----------------------------------------------------------------------------
(* Formula filter (utils/formula_engine.py)                                *)
(*                                                                         *)
(* A formula string is kept by its shape: kind names the shape and the     *)
(* other fields its parts, written exactly as in the text.                 *)
(*   empty     ""                                                          *)
(*   cmp       <ref> <op> <c>                                              *)
(*   and       <ref> <op> <c> and <ref2> <op2> <c2>                        *)
(*   amp       (<ref> <op> <c>) & (<ref2> <op2> <c2>)                      *)
(*   helper    <name>(<ref>, <c>)                                          *)
(*   attr      <ref>.<name>('out.csv')                                     *)
(*   dangling  <ref> <op>                                                  *)

Formula(kind, ref, op, c, ref2, op2, c2, name) ==
    [kind |-> kind, ref |-> ref, op |-> op, c |-> c,
     ref2 |-> ref2, op2 |-> op2, c2 |-> c2, name |-> name]

EmptyFormula == Formula("empty", "", "", 0, "", "", 0, "")
Cmp(ref, op, c) == Formula("cmp", ref, op, c, "", "", 0, "")
And(ref, op, c, ref2, op2, c2) == Formula("and", ref, op, c, ref2, op2, c2, "")
Amp(ref, op, c, ref2, op2, c2) == Formula("amp", ref, op, c, ref2, op2, c2, "")
Helper(name, ref, c) == Formula("helper", ref, "", c, "", "", 0, name)
Attr(ref, name) == Formula("attr", ref, "", 0, "", "", 0, name)
Dangling(ref, op) == Formula("dangling", ref, op, 0, "", "", 0, "")

\* pd.api.types.is_numeric_dtype(df[col])
is_numeric_dtype(df, col) == col \in df.columns \cap NUMERIC_COLUMNS

rename_map ==
    ("return" :> COL_RETURN) @@ ("expense_ratio" :> COL_FEE) @@
    ("risk" :> COL_STDEV) @@ ("beta" :> COL_BETA) @@ ("sharpe" :> COL_SHARPE)

\* a column name between backticks, as the Balanced Portfolio preset writes
\* it; <backtick> stands for the grave accent character
Backtick ==
    (COL_RETURN :> "<backtick>3 Years Annualised (%)<backtick>") @@
    (COL_FEE    :> "<backtick>Investment Management Fee(%)<backtick>") @@
    (COL_BETA   :> "<backtick>3 Year Beta<backtick>") @@
    (COL_STDEV  :> "<backtick>3 Year Standard Deviation<backtick>") @@
    (COL_SHARPE :> "<backtick>3 Year Sharpe Ratio<backtick>")

\* f"{col}_zscore" and f"{col}_percentile"
ZscoreKey ==
    (COL_RETURN :> "3 Years Annualised (%)_zscore") @@
    (COL_FEE    :> "Investment Management Fee(%)_zscore") @@
    (COL_BETA   :> "3 Year Beta_zscore") @@
    (COL_STDEV  :> "3 Year Standard Deviation_zscore") @@
    (COL_SHARPE :> "3 Year Sharpe Ratio_zscore") @@
    ("return" :> "return_zscore") @@ ("expense_ratio" :> "expense_ratio_zscore") @@
    ("risk" :> "risk_zscore") @@ ("beta" :> "beta_zscore") @@
    ("sharpe" :> "sharpe_zscore")

PercentileKey ==
    (COL_RETURN :> "3 Years Annualised (%)_percentile") @@
    (COL_FEE    :> "Investment Management Fee(%)_percentile") @@
    (COL_BETA   :> "3 Year Beta_percentile") @@
    (COL_STDEV  :> "3 Year Standard Deviation_percentile") @@
    (COL_SHARPE :> "3 Year Sharpe Ratio_percentile") @@
    ("return" :> "return_percentile") @@
    ("expense_ratio" :> "expense_ratio_percentile") @@
    ("risk" :> "risk_percentile") @@ ("beta" :> "beta_percentile") @@
    ("sharpe" :> "sharpe_percentile")

HelperNames == {"top_n_pct", "bottom_n_pct"}

\* the written names of the formulas that are Python identifiers (a letter or
\* underscore followed by letters, digits and underscores); every other
\* written name (a column name with spaces or brackets, a name in backticks)
\* is not an expression
Identifiers ==
    DOMAIN rename_map \cup HelperNames \cup {"Name", "foo", "to_csv"}

\* reserved words of Python
PyKeywords == {"return", "and", "or", "not", "if", "else", "in", "is", "lambda"}

\* the written name parses as a Name node
IsNameNode(ref) == ref \in Identifiers \ PyKeywords

CompareOps == {"<", "<=", ">", ">=", "==", "!="}

\* compile(formula_str, mode='eval') accepts the text
SyntaxOK(f) ==
    CASE f.kind = "cmp"      -> IsNameNode(f.ref) /\ f.op \in CompareOps
      [] f.kind \in {"and", "amp"} ->
             /\ IsNameNode(f.ref) /\ f.op \in CompareOps
             /\ IsNameNode(f.ref2) /\ f.op2 \in CompareOps
      [] f.kind = "helper"   -> IsNameNode(f.name) /\ IsNameNode(f.ref)
      [] f.kind = "attr"     -> IsNameNode(f.ref) /\ IsNameNode(f.name)
      [] OTHER               -> FALSE

FILL_VALUE == Rat(-9999, 1)

\* clean_series = df[col].copy().fillna(-9999): position -> cell
clean_series(df, col) ==
    [i \in DOMAIN df.rows |->
        IF isna(df.rows[i].v[col]) THEN FILL_VALUE ELSE df.rows[i].v[col]]

\* number of distinct values of a series
nunique(series) == Cardinality({series[i] : i \in DOMAIN series})

\* the keys of local_vars; the raw series and the helpers carry the values
\* the formulas of the model use
LocalVarKeys(df) ==
    LET numeric == {col \in df.columns : is_numeric_dtype(df, col)}
        aliases == {a \in DOMAIN rename_map : rename_map[a] \in numeric}
        varied  == {col \in numeric : nunique(clean_series(df, col)) > 1}
    IN  numeric \cup aliases
        \cup {ZscoreKey[col] : col \in varied}
        \cup {ZscoreKey[a] : a \in {x \in aliases : rename_map[x] \in varied}}
        \cup {PercentileKey[k] : k \in numeric \cup aliases}
        \cup HelperNames

\* the series a raw name of local_vars is bound to
LocalSeries(df, name) ==
    IF name \in DOMAIN rename_map THEN clean_series(df, rename_map[name])
    ELSE clean_series(df, name)

\* names of local_vars bound to a raw series
RawSeriesNames(df) ==
    LET numeric == {col \in df.columns : is_numeric_dtype(df, col)}
    IN  numeric \cup {a \in DOMAIN rename_map : rename_map[a] \in numeric}

RMul(a, b) == IF a.nan \/ b.nan THEN NaN ELSE Rat(a.n * b.n, a.d * b.d)

CompareValues(op, a, b) ==
    CASE op = "<"  -> RLt(a, b)
      [] op = "<=" -> RLe(a, b)
      [] op = ">"  -> RLt(b, a)
      [] op = ">=" -> RLe(b, a)
      [] op = "==" -> REq(a, b)
      [] op = "!=" -> ~REq(a, b)

\* series <op> constant
CompareSeries(series, op, c) ==
    [i \in DOMAIN series |-> CompareValues(op, series[i], Rat(c, 1))]

RECURSIVE Insert(_, _)
Insert(x, sorted) ==
    IF sorted = <<>> THEN <<x>>
    ELSE IF RLe(x, Head(sorted)) THEN <<x>> \o sorted
    ELSE <<Head(sorted)>> \o Insert(x, Tail(sorted))

RECURSIVE SortValues(_)
SortValues(s) == IF s = <<>> THEN <<>> ELSE Insert(Head(s), SortValues(Tail(s)))

\* np.percentile(values, q), linear interpolation, values non-empty
percentile(values, q) ==
    LET a    == SortValues(values)
        pos  == (Len(a) - 1) * q
        lo   == pos \div 100
        frac == Rat(pos % 100, 100)
    IN  IF lo + 1 >= Len(a) THEN a[Len(a)]
        ELSE RAdd(a[lo + 1], RMul(frac, RSub(a[lo + 2], a[lo + 1])))

SeriesValues(series) == [i \in 1..Len(series) |-> series[i]]

\* the index labels of the table are 0..n-1
HasDefaultIndex(df) == \A i \in DOMAIN df.rows : df.rows[i].index = i - 1

\* top_n_pct(series, n) and bottom_n_pct(series, n); aligned is FALSE for
\* the all-False series of an out-of-range n, whose labels are 0..len-1
top_n_pct(series, n) ==
    IF 0 <= n /\ n <= 100
    THEN [aligned |-> TRUE,
          mask |-> [i \in DOMAIN series |->
                       RLe(percentile(SeriesValues(series), 100 - n), series[i])]]
    ELSE [aligned |-> FALSE, mask |-> [i \in DOMAIN series |-> FALSE]]

bottom_n_pct(series, n) ==
    IF 0 <= n /\ n <= 100
    THEN [aligned |-> TRUE,
          mask |-> [i \in DOMAIN series |->
                       RLe(series[i], percentile(SeriesValues(series), n))]]
    ELSE [aligned |-> FALSE, mask |-> [i \in DOMAIN series |-> FALSE]]

\* df[mask].copy(): the rows whose mask cell is True, labels and order kept
RECURSIVE MaskRows(_, _, _)
MaskRows(rows, mask, i) ==
    IF i > Len(rows) THEN <<>>
    ELSE (IF mask[i] THEN <<rows[i]>> ELSE <<>>) \o MaskRows(rows, mask, i + 1)

ApplyMask(df, mask) == DataFrame(df.columns, MaskRows(df.rows, mask, 1))

\* what a call of apply_formula gives back: the table it returns (kind "ok")
\* or the ValueError it raises, with the capabilities the evaluation used
\* message is the text of the ValueError with its variable parts named in
\* angle brackets, original is str(e) of the exception it wraps
Result(kind, df, missing_var, available_vars, message, original, caps) ==
    [kind |-> kind, df |-> df, missing_var |-> missing_var,
     available_vars |-> available_vars, message |-> message,
     original |-> original, caps |-> caps]

NoResult == Result("none", NoneDF, "", {}, "", "", {})

Ok(df, caps) == Result("ok", df, "", {}, "", "", caps)

\* except NameError
UnknownIdentifier(df, name, caps) ==
    Result("UnknownIdentifier", NoneDF, name, LocalVarKeys(df),
           "Column '<missing_var>' not found or not numeric. Available variables are: <available_vars>",
           "name '<missing_var>' is not defined", caps)

\* except SyntaxError
InvalidSyntax ==
    Result("InvalidSyntax", NoneDF, "", {}, "Invalid formula syntax", "invalid syntax", {})

\* except Exception
EvaluationError(original, caps) ==
    Result("EvaluationError", NoneDF, "", {}, "Error applying formula: <original>",
           original, caps)

\* evaluation of one operand <ref> <op> <c>: a mask, or the exception raised
Operand(df, ref, op, c) ==
    IF ref \notin LocalVarKeys(df) THEN [exc |-> "NameError", mask |-> <<>>]
    ELSE IF ref \in HelperNames THEN [exc |-> "TypeError", mask |-> <<>>]
    ELSE [exc |-> "", mask |-> CompareSeries(LocalSeries(df, ref), op, c)]

\* filtered_df = df[mask].copy() for a mask of a helper call
FilterByHelperMask(df, res, caps) ==
    IF res.aligned \/ HasDefaultIndex(df)
    THEN Ok(ApplyMask(df, res.mask), caps)
    ELSE EvaluationError("Unalignable boolean Series provided as indexer", caps)

\* eval(formula_str, {"__builtins__": {}}, local_vars) and df[mask].copy(),
\* for a formula the compiler accepts
Evaluate(df, f) ==
    CASE f.kind = "cmp" ->
           LET a == Operand(df, f.ref, f.op, f.c)
           IN  IF a.exc = "NameError" THEN UnknownIdentifier(df, f.ref, {})
               ELSE IF a.exc # ""
                   THEN EvaluationError("'<' not supported between instances of 'function' and 'int'", {"comparison"})
               ELSE Ok(ApplyMask(df, a.mask), {"comparison"})
      [] f.kind = "and" ->
           \* bool() of the left mask raises before the right operand is read
           LET a == Operand(df, f.ref, f.op, f.c)
           IN  IF a.exc = "NameError" THEN UnknownIdentifier(df, f.ref, {})
               ELSE IF a.exc # ""
                   THEN EvaluationError("'<' not supported between instances of 'function' and 'int'", {"comparison"})
               ELSE EvaluationError("The truth value of a Series is ambiguous", {"comparison", "boolean"})
      [] f.kind = "amp" ->
           LET a == Operand(df, f.ref, f.op, f.c)
               b == Operand(df, f.ref2, f.op2, f.c2)
           IN  IF a.exc = "NameError" THEN UnknownIdentifier(df, f.ref, {})
               ELSE IF a.exc # ""
                   THEN EvaluationError("'<' not supported between instances of 'function' and 'int'", {"comparison"})
               ELSE IF b.exc = "NameError" THEN UnknownIdentifier(df, f.ref2, {"comparison"})
               ELSE IF b.exc # ""
                   THEN EvaluationError("'<' not supported between instances of 'function' and 'int'", {"comparison"})
               ELSE Ok(ApplyMask(df, [i \in DOMAIN a.mask |-> a.mask[i] /\ b.mask[i]]),
                       {"comparison", "boolean"})
      [] f.kind = "helper" ->
           IF f.name \notin LocalVarKeys(df) THEN UnknownIdentifier(df, f.name, {})
           ELSE IF f.ref \notin LocalVarKeys(df) THEN UnknownIdentifier(df, f.ref, {})
           ELSE IF f.name \notin HelperNames
               THEN EvaluationError("'Series' object is not callable", {})
           ELSE IF f.ref \in HelperNames
               THEN EvaluationError("'function' object has no attribute 'dropna'", {"helper"})
           ELSE IF f.name = "top_n_pct"
               THEN FilterByHelperMask(df, top_n_pct(LocalSeries(df, f.ref), f.c), {"helper"})
           ELSE FilterByHelperMask(df, bottom_n_pct(LocalSeries(df, f.ref), f.c), {"helper"})
      [] f.kind = "attr" ->
           \* <series>.to_csv('out.csv') writes the file and returns None
           IF f.ref \notin LocalVarKeys(df) THEN UnknownIdentifier(df, f.ref, {})
           ELSE IF f.ref \in HelperNames \/ f.name # "to_csv"
               THEN EvaluationError("object has no attribute", {"attribute"})
           ELSE EvaluationError("None", {"attribute", "filesystem"})

\* variant: no except SyntaxError clause, a syntax error is wrapped like any
\* other exception
apply_formula_noSyntaxClause(df, f) ==
    IF df.isNone \/ empty(df) THEN Ok(EmptyDataFrame, {})
    ELSE IF ~SyntaxOK(f)
        THEN EvaluationError("invalid syntax", {})
    ELSE Evaluate(df, f)

apply_formula(df, f) ==
    IF df.isNone \/ empty(df) THEN Ok(EmptyDataFrame, {})
    ELSE IF ~SyntaxOK(f) THEN InvalidSyntax
    ELSE Evaluate(df, f)

\* Apply Custom Formula on the formula page: the text area sets the formula,
\* the source is the platform-filtered table when there is one; an error is
\* shown and leaves the stored selection as it was
ApplyCustomFormula(f) ==
    /\ ~combined_data.isNone /\ ~empty(combined_data)
    /\ LET new_formula == IF f # EmptyFormula /\ f # formula THEN f ELSE formula
           source_data == IF hub24_filtered.isNone THEN combined_data ELSE hub24_filtered
           res == apply_formula(source_data, new_formula)
       IN  /\ formula' = new_formula
           /\ formula_result' = res
           /\ filtered_selection' = IF res.kind = "ok" THEN res.df ELSE filtered_selection
    /\ last_op' = "formula"
    /\ UNCHANGED <<sliders, portfolioVars, storageVars, heapVars>>
    /\ UNCHANGED <<combined_data, hub24_apir_codes, hub24_filtered, filter_result,
                   current_data_averages, selection_df>>
    /\ UNCHANGED <<extractVars, loaderVars>>

-----------------------------------------------------------------------------
(* Preset strategies (pages/4_Formula_Filtering.py) and                    *)
(* calculate_performance_metrics (utils/formula_engine.py)                 *)

COL_RETURN_RISK == "Return/Risk Ratio"
COL_RETURN_FEE  == "Return/Fee Ratio"
COL_TREYNOR     == "Treynor Ratio"

\* f'{metric} Category Percentile'
CategoryPercentileKey ==
    (COL_RETURN :> "3 Years Annualised (%) Category Percentile") @@
    (COL_FEE    :> "Investment Management Fee(%) Category Percentile") @@
    (COL_STDEV  :> "3 Year Standard Deviation Category Percentile") @@
    (COL_SHARPE :> "3 Year Sharpe Ratio Category Percentile")

\* a / b.replace(0, np.nan)
RDivNonZero(a, b) ==
    IF a.nan \/ b.nan \/ b.n = 0 THEN NaN ELSE Rat(a.n * b.d, a.d * b.n)

NotNa(x) == ~isna(x)

\* Series.rank(pct=True): the average rank among the values present over
\* their count, missing where the value is missing
rank_pct(values) ==
    LET count == Len(SelectSeq(values, NotNa))
    IN  [i \in DOMAIN values |->
            IF isna(values[i]) THEN NaN
            ELSE LET less  == Cardinality({j \in DOMAIN values : RLt(values[j], values[i])})
                     equal == Cardinality({j \in DOMAIN values : REq(values[j], values[i])})
                 IN  Rat(2 * less + equal + 1, 2 * count)] \o <<>>

\* rank(pct=True) * 100 and (1 - rank(pct=True)) * 100
ScoreOf(col, r) ==
    IF col \in {COL_FEE, COL_STDEV}
    THEN RMul(RSub(Rat(1, 1), r), Rat(100, 1))
    ELSE RMul(r, Rat(100, 1))

\* the columns of the composite quality score, in the order they are added
composite_metrics == <<COL_RETURN, COL_FEE, COL_STDEV, COL_SHARPE>>

\* result['Composite Score']: the scores of the metrics present, each
\* weighted 0.25, over the total weight
QualityScores(df) ==
    LET InTable(col) == col \in df.columns
        present == SelectSeq(composite_metrics, InTable)
        scores  == [k \in DOMAIN present |->
                       rank_pct(ColumnValues(df.rows, present[k]))] \o <<>>
    IN  [i \in DOMAIN df.rows |->
            RDivNonZero(
                RSum([k \in DOMAIN present |->
                         RDivInt(ScoreOf(present[k], scores[k][i]), 4)] \o <<>>),
                Rat(Len(present), 4))] \o <<>>

\* groupby('Morningstar Category')[metric].transform(rank): the rank of the
\* cell among the rows of its category
CategoryRank(df, metric) ==
    [i \in DOMAIN df.rows |->
        LET InGroup(j) == df.rows[j].v[COL_CAT] = df.rows[i].v[COL_CAT]
            v     == df.rows[i].v[metric]
            group == {j \in DOMAIN df.rows : InGroup(j) /\ ~isna(df.rows[j].v[metric])}
            less  == Cardinality({j \in group : RLt(df.rows[j].v[metric], v)})
            equal == Cardinality({j \in group : REq(df.rows[j].v[metric], v)})
        IN  IF isna(v) THEN NaN
            ELSE ScoreOf(metric, Rat(2 * less + equal + 1, 2 * Cardinality(group)))] \o <<>>

RECURSIVE AddCategoryPercentiles(_, _, _)
AddCategoryPercentiles(df, src, k) ==
    IF k > Len(composite_metrics) THEN df
    ELSE AddCategoryPercentiles(
             IF composite_metrics[k] \in src.columns
             THEN AddColumn(df, CategoryPercentileKey[composite_metrics[k]],
                            CategoryRank(src, composite_metrics[k]))
             ELSE df,
             src, k + 1)

calculate_performance_metrics(df) ==
    IF df.isNone \/ empty(df) THEN df
    ELSE LET Ratio(num, den) ==
                 [i \in DOMAIN df.rows |->
                     RDivNonZero(df.rows[i].v[num], df.rows[i].v[den])] \o <<>>
             CategoryPercentiles(r4) ==
                 IF COL_CAT \in df.columns THEN AddCategoryPercentiles(r4, df, 1) ELSE r4
             Composite(r3) ==
                 CategoryPercentiles(
                     IF \E k \in DOMAIN composite_metrics : composite_metrics[k] \in df.columns
                     THEN AddColumn(r3, COL_COMPOSITE, QualityScores(df))
                     ELSE r3)
             \* risk_free_rate = 1.5
             Treynor(r2) ==
                 Composite(
                     IF {COL_RETURN, COL_BETA} \subseteq df.columns
                     THEN AddColumn(r2, COL_TREYNOR,
                              [i \in DOMAIN df.rows |->
                                  RDivNonZero(RSub(df.rows[i].v[COL_RETURN], Rat(3, 2)),
                                              df.rows[i].v[COL_BETA])] \o <<>>)
                     ELSE r2)
             ReturnFee(r1) ==
                 Treynor(
                     IF {COL_RETURN, COL_FEE} \subseteq df.columns
                     THEN AddColumn(r1, COL_RETURN_FEE, Ratio(COL_RETURN, COL_FEE))
                     ELSE r1)
         IN  ReturnFee(
                 IF {COL_RETURN, COL_STDEV} \subseteq df.columns
                 THEN AddColumn(df, COL_RETURN_RISK, Ratio(COL_RETURN, COL_STDEV))
                 ELSE df)

\* the names of the strategy selector
STRATEGIES ==
    {"Balanced Portfolio", "High Growth", "Low Cost", "Income Focus",
     "Conservative", "Quality Value", "Category Leaders"}

\* the formula of the Balanced Portfolio preset: three comparisons joined by
\* &, every column name written between backticks; the record keeps the
\* first two, the third (<backtick>3 Year Standard Deviation<backtick> < 15)
\* is written the same way
BALANCED_FORMULA ==
    Amp(Backtick[COL_RETURN], ">", 5, Backtick[COL_FEE], "<", 1)

\* Series.median(): missing values skipped, NaN when none is left
series_median(values) ==
    LET sorted == SortValues(SelectSeq(values, NotNa))
        n      == Len(sorted)
    IN  IF n = 0 THEN NaN
        ELSE IF n % 2 = 1 THEN sorted[(n + 1) \div 2]
        ELSE RDivInt(RAdd(sorted[n \div 2], sorted[n \div 2 + 1]), 2)

\* np.percentile(series.dropna(), q): on an empty array the releases of
\* numpy differ, some raise IndexError and some return nan; empty_raises
\* tells which
Threshold(values, q, empty_raises) ==
    LET present == SelectSeq(values, NotNa)
    IN  IF present = <<>> THEN [exc |-> empty_raises, x |-> NaN]
        ELSE [exc |-> FALSE, x |-> percentile(present, q)]

\* the categories whose name matches 'Fixed Income|Bond|Income', case ignored
INCOME_CATEGORIES == {"Fixed Income", "Bond", "Income"}

\* the categories in the order groupby goes through them
CATEGORY_ORDER == <<"Bond", "Fixed Income", "Income", "X", "Y">>

StrategyError(original) ==
    Result("StrategyError", NoneDF, "", {}, "Error applying strategy: <original>",
           original, {})

INDEX_ERROR == "index -1 is out of bounds for axis 0 with size 0"

\* the rows of one category, in table order
CategoryGroup(df, cat) ==
    LET InGroup(row) == row.v[COL_CAT] = cat
    IN  SelectSeq(df.rows, InGroup)

\* top_in_category of one group
TopInCategory(group, threshold) ==
    LET m == series_median(ColumnValues(group, COL_SHARPE))
        Top(row) == RLe(threshold, row.v[COL_RETURN]) /\ RLt(m, row.v[COL_SHARPE])
    IN  SelectSeq(group, Top)

\* pd.concat(result) over the groups from the k-th category on
RECURSIVE CategoryLeaders(_, _, _)
CategoryLeaders(df, k, empty_raises) ==
    IF k > Len(CATEGORY_ORDER) THEN [exc |-> FALSE, rows |-> <<>>]
    ELSE LET group == CategoryGroup(df, CATEGORY_ORDER[k])
             th    == Threshold(ColumnValues(group, COL_RETURN), 80, empty_raises)
             rest  == CategoryLeaders(df, k + 1, empty_raises)
         IN  IF group = <<>> THEN rest
             ELSE IF th.exc THEN [exc |-> TRUE, rows |-> <<>>]
             ELSE [exc |-> rest.exc, rows |-> TopInCategory(group, th.x) \o rest.rows]

\* the body of the try block: the table stored, or the exception shown
StrategyResult(strategy, source_data, empty_raises) ==
    LET Selected(enhanced_data) ==
            LET Col(c) == ColumnValues(enhanced_data.rows, c)
                Has(cols) == ~enhanced_data.isNone /\ cols \subseteq enhanced_data.columns
            IN  CASE strategy = "Balanced Portfolio" ->
                       apply_formula(enhanced_data, BALANCED_FORMULA)
                  [] strategy = "High Growth" ->
                       IF ~Has({COL_RETURN}) THEN Ok(EmptyDataFrame, {})
                       ELSE LET th == Threshold(Col(COL_RETURN), 75, empty_raises)
                                Keep(row) == RLe(th.x, row.v[COL_RETURN])
                            IN  IF th.exc THEN StrategyError(INDEX_ERROR)
                                ELSE Ok(DataFrame(enhanced_data.columns, SelectSeq(enhanced_data.rows, Keep)), {})
                  [] strategy = "Low Cost" ->
                       IF ~Has({COL_FEE}) THEN Ok(EmptyDataFrame, {})
                       ELSE LET th == Threshold(Col(COL_FEE), 25, empty_raises)
                                Keep(row) == RLe(row.v[COL_FEE], th.x)
                            IN  IF th.exc THEN StrategyError(INDEX_ERROR)
                                ELSE Ok(DataFrame(enhanced_data.columns, SelectSeq(enhanced_data.rows, Keep)), {})
                  [] strategy = "Income Focus" ->
                       IF ~Has({COL_CAT, COL_SHARPE}) THEN Ok(EmptyDataFrame, {})
                       ELSE LET m == series_median(Col(COL_SHARPE))
                                Keep(row) == /\ row.v[COL_CAT] \in INCOME_CATEGORIES
                                             /\ RLt(m, row.v[COL_SHARPE])
                            IN  Ok(DataFrame(enhanced_data.columns, SelectSeq(enhanced_data.rows, Keep)), {})
                  [] strategy = "Conservative" ->
                       IF ~Has({COL_STDEV, COL_BETA}) THEN Ok(EmptyDataFrame, {})
                       ELSE LET th == Threshold(Col(COL_STDEV), 30, empty_raises)
                                Keep(row) == /\ RLe(row.v[COL_STDEV], th.x)
                                             /\ RLt(row.v[COL_BETA], Rat(4, 5))
                            IN  IF th.exc THEN StrategyError(INDEX_ERROR)
                                ELSE Ok(DataFrame(enhanced_data.columns, SelectSeq(enhanced_data.rows, Keep)), {})
                  [] strategy = "Quality Value" ->
                       IF ~Has({COL_SHARPE, COL_FEE}) THEN Ok(EmptyDataFrame, {})
                       ELSE LET sh == Threshold(Col(COL_SHARPE), 70, empty_raises)
                                ex == Threshold(Col(COL_FEE), 60, empty_raises)
                                Keep(row) == /\ RLe(sh.x, row.v[COL_SHARPE])
                                             /\ RLe(row.v[COL_FEE], ex.x)
                            IN  IF sh.exc \/ ex.exc THEN StrategyError(INDEX_ERROR)
                                ELSE Ok(DataFrame(enhanced_data.columns, SelectSeq(enhanced_data.rows, Keep)), {})
                  [] strategy = "Category Leaders" ->
                       IF ~Has({COL_CAT, COL_RETURN}) THEN Ok(EmptyDataFrame, {})
                       ELSE IF COL_SHARPE \notin enhanced_data.columns
                       THEN StrategyError("'3 Year Sharpe Ratio'")
                       ELSE LET res == CategoryLeaders(enhanced_data, 1, empty_raises)
                            IN  IF res.exc THEN StrategyError(INDEX_ERROR)
                                ELSE IF enhanced_data.rows = <<>> THEN Ok(EmptyDataFrame, {})
                                ELSE Ok(DataFrame(enhanced_data.columns, res.rows), {})
    IN  Selected(calculate_performance_metrics(source_data))

\* Apply Strategy on the formula page: the source is the platform-filtered
\* table when there is one; an exception is shown and leaves the stored
\* selection as it was
ApplyStrategy(strategy, empty_raises) ==
    /\ ~combined_data.isNone /\ ~empty(combined_data)
    /\ \E source_data \in {IF hub24_filtered.isNone THEN combined_data ELSE hub24_filtered} :
       \E res \in {StrategyResult(strategy, source_data, empty_raises)} :
           /\ formula_result' = res
           /\ filtered_selection' = IF res.kind = "ok" THEN res.df ELSE filtered_selection
    /\ last_op' = strategy
    /\ UNCHANGED <<sliders, portfolioVars, storageVars, heapVars>>
    /\ UNCHANGED <<combined_data, hub24_apir_codes, hub24_filtered, formula,
                   filter_result, current_data_averages, selection_df>>
    /\ UNCHANGED <<extractVars, loaderVars>>

-----------------------------------------------------------------------------
(* Platform filter (utils/hub24_filter.py)                                 *)

Range(seq) == {seq[i] : i \in DOMAIN seq}

\* what a call gives back: the table returned and whether st.warning was shown
FilterResult(df, warning) == [kind |-> "filter", df |-> df, warning |-> warning]

NoFilterResult == FilterResult(NoneDF, FALSE)

\* letters folded to upper case, for the codes of the model
Upper(code) ==
    CASE code = "aaa001au" -> "AAA001AU"
      [] code = "bbb002au" -> "BBB002AU"
      [] OTHER -> code

\* variant: codes compared without regard to case
filter_investments_by_apir_ignoreCase(df, apir_codes) ==
    IF df.isNone \/ empty(df) \/ apir_codes = <<>> THEN FilterResult(df, FALSE)
    ELSE IF COL_APIR \notin df.columns THEN FilterResult(df, TRUE)
    ELSE FilterResult(
             ApplyMask(df, [i \in DOMAIN df.rows |->
                               Upper(df.rows[i].v[COL_APIR]) \in
                                   {Upper(c) : c \in Range(apir_codes)}]),
             FALSE)

filter_investments_by_apir(df, apir_codes) ==
    IF df.isNone \/ empty(df) \/ apir_codes = <<>> THEN FilterResult(df, FALSE)
    ELSE IF COL_APIR \notin df.columns THEN FilterResult(df, TRUE)
    ELSE FilterResult(
             ApplyMask(df, [i \in DOMAIN df.rows |->
                               df.rows[i].v[COL_APIR] \in Range(apir_codes)]),
             FALSE)

\* a direct call of the function on the table and the code list at hand
CallFilterInvestmentsByApir ==
    /\ filter_result' = filter_investments_by_apir(combined_data, hub24_apir_codes)
    /\ last_op' = "filter"
    /\ UNCHANGED <<sliders, portfolioVars, storageVars, heapVars>>
    /\ UNCHANGED <<combined_data, hub24_apir_codes, hub24_filtered, filtered_selection,
                   formula, formula_result, current_data_averages, selection_df>>
    /\ UNCHANGED <<extractVars, loaderVars>>

\* Filter by HUB24 Options on the platform page, offered when codes are stored
FilterByHub24Options ==
    /\ ~combined_data.isNone /\ ~empty(combined_data)
    /\ Len(hub24_apir_codes) > 0
    /\ LET res == filter_investments_by_apir(combined_data, hub24_apir_codes)
       IN  /\ filter_result' = res
           /\ hub24_filtered' = res.df
    /\ last_op' = "hub24"
    /\ UNCHANGED <<sliders, portfolioVars, storageVars, heapVars>>
    /\ UNCHANGED <<combined_data, hub24_apir_codes, filtered_selection,
                   formula, formula_result, current_data_averages, selection_df>>
    /\ UNCHANGED <<extractVars, loaderVars>>

-----------------------------------------------------------------------------
(* Platform-code extractor (utils/hub24_filter.py)                         *)
(*                                                                         *)
(* A page text is a sequence of one-character strings; a document is       *)
(* [readable, pages] and a page is [fails, text], fails meaning that       *)
(* extract_text raises (or gives no string) for it.                        *)

UppercaseLetters ==
    {"A", "B", "C", "D", "E", "F", "G", "H", "I", "J", "K", "L", "M",
     "N", "O", "P", "Q", "R", "S", "T", "U", "V", "W", "X", "Y", "Z"}
LowercaseLetters ==
    {"a", "b", "c", "d", "e", "f", "g", "h", "i", "j", "k", "l", "m",
     "n", "o", "p", "q", "r", "s", "t", "u", "v", "w", "x", "y", "z"}
DigitChars == {"0", "1", "2", "3", "4", "5", "6", "7", "8", "9"}

\* \w, \s, [\s\-] and [0-9A-Z] of the two patterns
WordChars == UppercaseLetters \cup LowercaseLetters \cup DigitChars \cup {"_"}
WhitespaceChars == {" ", "\n", "\t"}
SeparatorChars == WhitespaceChars \cup {"-"}
BodyChars == DigitChars \cup UppercaseLetters

\* \b at the position before character i
WordBoundary(text, i) ==
    ((i - 1) \in DOMAIN text /\ text[i - 1] \in WordChars)
        # (i \in DOMAIN text /\ text[i] \in WordChars)

\* \b[A-Z]{3}[0-9A-Z]{2,9}(?:AU)?\b
standard_pattern == [separators |-> FALSE, minBody |-> 2, maxBody |-> 9, suffix |-> TRUE]
\* \b[A-Z]{3}[\s\-]?[0-9A-Z]{2,6}[\s\-]?(?:AU)?\b
special_pattern == [separators |-> TRUE, minBody |-> 2, maxBody |-> 6, suffix |-> TRUE]
\* apir_pattern of app.py: \b[A-Z]{3}[0-9A-Z]{2,6}\b
apir_pattern == [separators |-> FALSE, minBody |-> 2, maxBody |-> 6, suffix |-> FALSE]

\* the ways the optional and counted parts of a pattern can be taken
Attempts(p) ==
    [s1 : IF p.separators THEN {0, 1} ELSE {0},
     k  : p.minBody .. p.maxBody,
     s2 : IF p.separators THEN {0, 1} ELSE {0},
     au : IF p.suffix THEN {0, 1} ELSE {0}]

\* position after a match that starts at i and takes its parts as in a
AttemptEnd(i, a) == i + 3 + a.s1 + a.k + a.s2 + 2 * a.au

AttemptMatches(text, i, a) ==
    LET body == i + 3 + a.s1
        tail == body + a.k
        au   == tail + a.s2
    IN  /\ AttemptEnd(i, a) - 1 <= Len(text)
        /\ WordBoundary(text, i)
        /\ \A j \in i .. (i + 2) : text[j] \in UppercaseLetters
        /\ a.s1 = 1 => text[i + 3] \in SeparatorChars
        /\ \A j \in body .. (tail - 1) : text[j] \in BodyChars
        /\ a.s2 = 1 => text[tail] \in SeparatorChars
        /\ a.au = 1 => (text[au] = "A" /\ text[au + 1] = "U")
        /\ WordBoundary(text, AttemptEnd(i, a))

\* the order in which the greedy matcher tries the attempts: an optional
\* part taken before it is skipped, a longer count before a shorter one
Rank(a) == ((a.s1 * 10 + a.k) * 2 + a.s2) * 2 + a.au

\* position after the match found at i, 0 when there is none; the patterns
\* begin with \b[A-Z], so that no attempt matches elsewhere
MatchAt(p, text, i) ==
    IF ~WordBoundary(text, i) \/ text[i] \notin UppercaseLetters THEN 0
    ELSE LET ok == { a \in Attempts(p) : AttemptMatches(text, i, a) }
         IN  IF ok = {} THEN 0
             ELSE AttemptEnd(i, CHOOSE a \in ok : \A b \in ok : Rank(b) <= Rank(a))

\* re.findall from position i on: leftmost matches, none overlapping
RECURSIVE FindFrom(_, _, _)
FindFrom(p, text, i) ==
    IF i > Len(text) THEN <<>>
    ELSE LET e == MatchAt(p, text, i)
         IN  IF e = 0 THEN FindFrom(p, text, i + 1)
             ELSE <<SubSeq(text, i, e - 1)>> \o FindFrom(p, text, e)

findall(p, text) == FindFrom(p, text, 1)

\* code.replace(" ", "").replace("-", "")
IsKept(c) == c \notin {" ", "-"}
cleaned_code(code) == SelectSeq(code, IsKept)

isalpha(code) ==
    /\ code # <<>>
    /\ \A i \in DOMAIN code : code[i] \in UppercaseLetters \cup LowercaseLetters

\* the codes one page adds to all_apir_codes
PageCodes(text) ==
    LET standard_codes == Range(findall(standard_pattern, text))
        special_codes  == Range(findall(special_pattern, text))
        cleaned_special_codes ==
            { cleaned_code(code) : code \in special_codes } \ standard_codes
    IN  standard_codes \cup cleaned_special_codes

all_apir_codes(pages) == UNION { PageCodes(pages[i].text) : i \in DOMAIN pages }

\* what a call gives back: the codes of the returned list, each as its
\* characters, and whether st.error was shown
ExtractResult(codes, error) == [kind |-> "extract", codes |-> codes, error |-> error]

NoExtractResult == [kind |-> "none", codes |-> {}, error |-> FALSE]

\* variant: codes made of letters only are kept
extract_apir_codes_from_pdf_keepLetters(pdf_file) ==
    IF ~pdf_file.readable \/ \E i \in DOMAIN pdf_file.pages : pdf_file.pages[i].fails
    THEN ExtractResult({}, TRUE)
    ELSE ExtractResult({ c \in all_apir_codes(pdf_file.pages) : Len(c) >= 5 }, FALSE)

extract_apir_codes_from_pdf(pdf_file) ==
    IF ~pdf_file.readable \/ \E i \in DOMAIN pdf_file.pages : pdf_file.pages[i].fails
    THEN ExtractResult({}, TRUE)
    ELSE ExtractResult({ c \in all_apir_codes(pdf_file.pages) :
                             Len(c) >= 5 /\ ~isalpha(c) }, FALSE)

\* the string made of the characters, as a cell of the APIR Code column holds it
RECURSIVE Join(_)
Join(chars) == IF chars = <<>> THEN "" ELSE Head(chars) \o Join(Tail(chars))

\* the lists a set of codes can be turned into
ListsOf(codes) ==
    { l \in [1..Cardinality(codes) -> codes] : Range(l) = codes }

NoPdf == [kind |-> "none", readable |-> FALSE, pages |-> <<>>]

Pdf(readable, pages) == [kind |-> "pdf", readable |-> readable, pages |-> pages]

\* Extract APIR Codes on the platform page, offered once a document is uploaded
ExtractApirCodes ==
    /\ ~combined_data.isNone /\ ~empty(combined_data)
    /\ hub24_pdf # NoPdf
    /\ LET res == extract_apir_codes_from_pdf(hub24_pdf)
       IN  /\ extract_result' = res
           /\ hub24_apir_codes' \in ListsOf({ Join(c) : c \in res.codes })
           /\ hub24_filtered' = IF res.codes # {} THEN NoneDF ELSE hub24_filtered
    /\ last_op' = "extract"
    /\ UNCHANGED <<sliders, portfolioVars, storageVars, heapVars>>
    /\ UNCHANGED <<combined_data, filtered_selection, formula, formula_result,
                   filter_result, current_data_averages, selection_df, hub24_pdf>>
    /\ UNCHANGED loaderVars

-----------------------------------------------------------------------------
(* CSV loader (utils/data_processor.py)                                    *)
(*                                                                         *)
(* The text of a cell is a sequence of one-character strings.  A cell of a *)
(* table read from a file is [kind, s, x]: a string ("str", characters s), *)
(* a number of an int64 or float64 column ("int", "float", value x) or a   *)
(* missing value ("nan").  pandas is taken as the releases before 3.0.     *)

\* the trademark sign of the column name is written (TM)
COL_STYLEBOX == "Equity StyleBox(TM)"
COL_RATING   == "Morningstar Rating"

REQUIRED_COLUMNS ==
    <<COL_NAME, COL_APIR, COL_CAT, COL_RETURN, COL_FEE, COL_STYLEBOX,
      COL_RATING, COL_BETA, COL_STDEV, COL_SHARPE>>

\* NUMERIC_COLUMNS in the order of the list
NUMERIC_COLUMNS_LIST == <<COL_RETURN, COL_FEE, COL_BETA, COL_STDEV, COL_SHARPE>>

StrCell(s)   == [kind |-> "str", s |-> s, x |-> NaN]
IntCell(x)   == [kind |-> "int", s |-> <<>>, x |-> x]
FloatCell(x) == [kind |-> "float", s |-> <<>>, x |-> x]
NanCell      == [kind |-> "nan", s |-> <<>>, x |-> NaN]

IsStr(cell) == cell.kind = "str"
IsNum(cell) == cell.kind \in {"int", "float"}
IsNan(cell) == cell.kind = "nan"

\* the one character U+2212 (minus sign)
UNICODE_MINUS == "U+2212"

UpperSeq ==
    <<"A", "B", "C", "D", "E", "F", "G", "H", "I", "J", "K", "L", "M",
      "N", "O", "P", "Q", "R", "S", "T", "U", "V", "W", "X", "Y", "Z">>
LowerSeq ==
    <<"a", "b", "c", "d", "e", "f", "g", "h", "i", "j", "k", "l", "m",
      "n", "o", "p", "q", "r", "s", "t", "u", "v", "w", "x", "y", "z">>

LowerChar(c) ==
    IF c \in UppercaseLetters
    THEN LowerSeq[CHOOSE i \in DOMAIN UpperSeq : UpperSeq[i] = c]
    ELSE c

\* str.lower()
lower(s) == [i \in DOMAIN s |-> LowerChar(s[i])] \o <<>>

\* str.strip()
RECURSIVE lstrip(_)
lstrip(s) ==
    IF s # <<>> /\ Head(s) \in WhitespaceChars THEN lstrip(Tail(s)) ELSE s

RECURSIVE rstrip(_)
rstrip(s) ==
    IF s # <<>> /\ s[Len(s)] \in WhitespaceChars
    THEN rstrip(SubSeq(s, 1, Len(s) - 1))
    ELSE s

strip(s) == rstrip(lstrip(s))

\* str.replace(old, new) for a one-character old
RECURSIVE replace(_, _, _)
replace(s, old, new) ==
    IF s = <<>> THEN <<>>
    ELSE (IF Head(s) = old THEN new ELSE <<Head(s)>>) \o replace(Tail(s), old, new)

\* old in s
contains(s, old) == \E i \in DOMAIN s : s[i] = old

\* str.split(sep) for a one-character sep
RECURSIVE split(_, _)
split(s, sep) ==
    IF ~contains(s, sep) THEN <<s>>
    ELSE LET i == CHOOSE j \in DOMAIN s :
                      s[j] = sep /\ \A k \in 1..(j - 1) : s[k] # sep
         IN  <<SubSeq(s, 1, i - 1)>> \o split(SubSeq(s, i + 1, Len(s)), sep)

DigitSeq == <<"0", "1", "2", "3", "4", "5", "6", "7", "8", "9">>

DigitChar(n) == DigitSeq[n + 1]
DigitValue(c) == (CHOOSE i \in DOMAIN DigitSeq : DigitSeq[i] = c) - 1

RECURSIVE DigitsValue(_)
DigitsValue(s) ==
    IF s = <<>> THEN 0
    ELSE DigitsValue(SubSeq(s, 1, Len(s) - 1)) * 10 + DigitValue(s[Len(s)])

RECURSIVE Pow10(_)
Pow10(k) == IF k = 0 THEN 1 ELSE 10 * Pow10(k - 1)

\* float(s) and the number parser of pandas on decimal notation, the
\* notation of the cells at hand: [sign] digits [. digits], blanks around
\* it ignored; ok is FALSE where Python raises ValueError, int tells a text
\* without decimal point
ParseNumber(text) ==
    LET Parsed(negative, dots, ok, mag) ==
            [ok  |-> ok,
             int |-> ok /\ dots = {},
             x   |-> IF ~ok THEN NaN
                     ELSE IF negative THEN RNeg(mag) ELSE mag]
        Digits(negative, dots, ip, fp) ==
            Parsed(negative, dots,
                   /\ Cardinality(dots) <= 1
                   /\ \A i \in DOMAIN ip : ip[i] \in DigitChars
                   /\ \A i \in DOMAIN fp : fp[i] \in DigitChars
                   /\ Len(ip) + Len(fp) >= 1,
                   Rat(DigitsValue(ip) * Pow10(Len(fp)) + DigitsValue(fp),
                       Pow10(Len(fp))))
        Parts(negative, body, dots, dot) ==
            Digits(negative, dots,
                   IF dots = {} THEN body ELSE SubSeq(body, 1, dot - 1),
                   IF dots = {} THEN <<>> ELSE SubSeq(body, dot + 1, Len(body)))
        Body(negative, body, dots) ==
            Parts(negative, body, dots, CHOOSE i \in dots : TRUE)
        Signed(s, signed) ==
            Body(signed /\ s[1] = "-", IF signed THEN Tail(s) ELSE s,
                 {i \in DOMAIN (IF signed THEN Tail(s) ELSE s) :
                     (IF signed THEN Tail(s) ELSE s)[i] = "."})
        Stripped(s) == Signed(s, s # <<>> /\ s[1] \in {"-", "+"})
    IN  Stripped(strip(text))

RECURSIVE NatToChars(_)
NatToChars(n) ==
    IF n < 10 THEN <<DigitChar(n)>>
    ELSE NatToChars(n \div 10) \o <<DigitChar(n % 10)>>

\* the k low digits of n
RECURSIVE PadDigits(_, _)
PadDigits(n, k) ==
    IF k = 0 THEN <<>> ELSE PadDigits(n \div 10, k - 1) \o <<DigitChar(n % 10)>>

MaxDecimals == 8

\* str(x) of a float: the shortest decimal text, one decimal at least
FormatFloat(x) ==
    LET k      == CHOOSE j \in 1..MaxDecimals :
                      /\ Pow10(j) % x.d = 0
                      /\ \A i \in 1..(j - 1) : Pow10(i) % x.d # 0
        scaled == Abs(x.n) * (Pow10(k) \div x.d)
    IN  (IF x.n < 0 THEN <<"-">> ELSE <<>>)
            \o NatToChars(scaled \div Pow10(k)) \o <<".">>
            \o PadDigits(scaled % Pow10(k), k)

\* str(x) of an int
FormatInt(x) == (IF x.n < 0 THEN <<"-">> ELSE <<>>) \o NatToChars(Abs(x.n))

NAN_TEXT == <<"n", "a", "n">>

\* Series.astype(str), cell by cell
astype_str(cell) ==
    CASE cell.kind = "str"   -> cell
      [] cell.kind = "int"   -> StrCell(FormatInt(cell.x))
      [] cell.kind = "float" -> StrCell(FormatFloat(cell.x))
      [] cell.kind = "nan"   -> StrCell(NAN_TEXT)

\* a file given to pd.read_csv: no content at all ("empty"), content that
\* the parser rejects ("malformed") or a header and rows of cell texts
CsvFile(kind, columns, rows) == [kind |-> kind, columns |-> columns, rows |-> rows]

NoFile == CsvFile("none", {}, <<>>)

\* texts that read_csv takes for missing values by default
NA_VALUES ==
    { <<>>, <<"N", "/", "A">>, <<"N", "A">>, <<"N", "U", "L", "L">>,
      <<"N", "a", "N">>, <<"n", "/", "a">>, <<"n", "a", "n">>,
      <<"n", "u", "l", "l">>, <<"N", "o", "n", "e">>, <<"#", "N", "/", "A">> }

\* the cells read_csv makes of the texts of one column: numbers when every
\* text present is a number (int64 when all are integers and none is
\* missing, else float64), otherwise the texts as they are
InferColumn(texts) ==
    LET na(i)  == texts[i] \in NA_VALUES
        allNum == \A i \in DOMAIN texts : na(i) \/ ParseNumber(texts[i]).ok
        allInt == \A i \in DOMAIN texts : ~na(i) /\ ParseNumber(texts[i]).int
    IN  [i \in DOMAIN texts |->
            IF na(i) THEN NanCell
            ELSE IF ~allNum THEN StrCell(texts[i])
            ELSE IF allInt THEN IntCell(ParseNumber(texts[i]).x)
            ELSE FloatCell(ParseNumber(texts[i]).x)] \o <<>>

\* the cells of one column of a table, in row order
Column(df, col) == [i \in DOMAIN df.rows |-> df.rows[i].v[col]] \o <<>>

\* what read_csv gives: the exception it raises, if any, and the table;
\* nrows = 0 stands for no nrows argument
ReadResult(error, df) == [error |-> error, df |-> df]

read_csv(file, nrows) ==
    CASE file.kind = "empty"     -> ReadResult("EmptyDataError", NoneDF)
      [] file.kind = "malformed" -> ReadResult("ParserError", NoneDF)
      [] OTHER ->
            LET n     == IF nrows = 0 \/ Len(file.rows) < nrows
                         THEN Len(file.rows) ELSE nrows
                texts == [c \in file.columns |->
                             InferColumn([i \in 1..n |-> file.rows[i][c]] \o <<>>)] @@ <<>>
            IN  ReadResult("none",
                    DataFrame(file.columns,
                        [i \in 1..n |->
                            [index |-> i - 1,
                             v |-> [c \in file.columns |-> texts[c][i]] @@ <<>>]] \o <<>>))

\* x.lower().strip() == 'nan'
IsNanText(s) == strip(lower(s)) = NAN_TEXT

\* literal nan texts made missing
DropNanText(cells) ==
    [i \in DOMAIN cells |->
        IF IsStr(cells[i]) /\ IsNanText(cells[i].s) THEN NanCell ELSE cells[i]] \o <<>>

\* the keys of the replace dictionary
MISSING_TEXTS ==
    { <<"U", "n", "k", "n", "o", "w", "n">>, <<"N", "/", "A">>, <<"n", "/", "a">>,
      <<"n", "a">>, <<"-">>, <<>>, <<"n", "u", "l", "l">>, <<"N", "U", "L", "L">>,
      <<" ">>, <<"n", "a", "n">>, <<"N", "a", "N">>, <<"N", "a", "n">>,
      <<"N", "A", "N">> }

ReplaceMissing(cells) ==
    [i \in DOMAIN cells |->
        IF IsStr(cells[i]) /\ cells[i].s \in MISSING_TEXTS THEN NanCell ELSE cells[i]] \o <<>>

\* a column left without any string is turned into float64 by apply and by
\* replace, and the .str accessor of the next step raises AttributeError
HasStrAccessor(cells) == \E i \in DOMAIN cells : IsStr(cells[i])

\* df[col].str.replace('−', '-')
ReplaceMinus(cells) ==
    [i \in DOMAIN cells |->
        IF IsStr(cells[i]) THEN StrCell(replace(cells[i].s, UNICODE_MINUS, <<"-">>))
        ELSE cells[i]] \o <<>>

\* empty_mask
BlankToNan(cells) ==
    [i \in DOMAIN cells |->
        IF IsStr(cells[i]) /\ strip(cells[i].s) = <<>> THEN NanCell ELSE cells[i]] \o <<>>

\* percent and dollar signs removed, commas made decimal points
StripFeeSymbols(cells) ==
    [i \in DOMAIN cells |->
        IF IsStr(cells[i])
        THEN StrCell(replace(replace(replace(cells[i].s, "%", <<>>), "$", <<>>),
                             ",", <<".">>))
        ELSE cells[i]] \o <<>>

\* "X.XX / Y.YY": the first number
FirstOfSlash(cells) ==
    [i \in DOMAIN cells |->
        IF IsStr(cells[i]) /\ contains(cells[i].s, "/")
        THEN StrCell(strip(split(cells[i].s, "/")[1]))
        ELSE cells[i]] \o <<>>

ZERO_TEXTS == { <<"0">>, <<"0", ".", "0">>, <<"0", ".", "0", "0">> }

IsZeroText(s) == strip(s) \in ZERO_TEXTS

\* zeros of the fee column treated as missing
ZeroToNan(cells) ==
    [i \in DOMAIN cells |->
        IF IsStr(cells[i]) /\ IsZeroText(cells[i].s) THEN NanCell ELSE cells[i]] \o <<>>

process_range(val) ==
    IF IsStr(val) /\ contains(val.s, "-")
    THEN LET parts == split(val.s, "-")
         IN  IF Len(parts) = 2
             THEN LET low  == ParseNumber(parts[1])
                      high == ParseNumber(parts[2])
                  IN  IF low.ok /\ high.ok
                      THEN FloatCell(RDivInt(RAdd(low.x, high.x), 2))
                      ELSE val
             ELSE val
    ELSE val

\* the special handling of the Investment Management Fee(%) column
ProcessFeeColumn(cells) ==
    LET Ranges(picked) == [i \in DOMAIN picked |-> process_range(picked[i])] \o <<>>
    IN  Ranges(DropNanText(ZeroToNan(FirstOfSlash(StripFeeSymbols(cells)))))

\* pd.to_numeric(errors='coerce'): int64 when every cell is the text of an
\* integer, float64 otherwise
to_numeric_coerce(cells) ==
    LET allInt == \A i \in DOMAIN cells :
                      IsStr(cells[i]) /\ ParseNumber(cells[i].s).int
    IN  [i \in DOMAIN cells |->
            IF IsStr(cells[i])
            THEN (IF ~ParseNumber(cells[i].s).ok THEN NanCell
                  ELSE IF allInt THEN IntCell(ParseNumber(cells[i].s).x)
                  ELSE FloatCell(ParseNumber(cells[i].s).x))
            ELSE IF IsNum(cells[i]) THEN FloatCell(cells[i].x)
            ELSE NanCell] \o <<>>

\* the column up to the .str accessor (lines 116-138)
PrepareColumn(cells) ==
    ReplaceMissing(DropNanText([i \in DOMAIN cells |-> astype_str(cells[i])] \o <<>>))

\* variant: the fee handling applied to every numeric column
ConvertColumn_allColumns(col, cells) ==
    to_numeric_coerce(ProcessFeeColumn(BlankToNan(ReplaceMinus(PrepareColumn(cells)))))

\* one pass of the loop over NUMERIC_COLUMNS (lines 116-184)
ConvertColumn(col, cells) ==
    LET Convert(cleaned) ==
            to_numeric_coerce(IF col = COL_FEE THEN ProcessFeeColumn(cleaned) ELSE cleaned)
    IN  Convert(BlankToNan(ReplaceMinus(PrepareColumn(cells))))

key_3year_metrics == {COL_BETA, COL_STDEV, COL_SHARPE}

\* Series.median(): missing cells skipped, NaN when none is left
median(cells) ==
    LET present == SelectSeq(cells, IsNum)
        sorted  == SortValues([i \in DOMAIN present |-> present[i].x] \o <<>>)
        n       == Len(sorted)
    IN  IF n = 0 THEN NaN
        ELSE IF n % 2 = 1 THEN sorted[(n + 1) \div 2]
        ELSE RDivInt(RAdd(sorted[n \div 2], sorted[n \div 2 + 1]), 2)

\* select_dtypes: a float64 or int64 column holds no string, an object
\* column holds one at least
IsNumericColumn(cells) == \A i \in DOMAIN cells : ~IsStr(cells[i])

numeric_cols(df) == { c \in df.columns : IsNumericColumn(Column(df, c)) }

UNKNOWN_TEXT == <<"U", "n", "k", "n", "o", "w", "n">>

\* the missing cells of one column filled (lines 197-208)
FillColumn(col, cells) ==
    LET Filled(m) ==
            IF IsNumericColumn(cells)
            THEN (IF col \in key_3year_metrics \/ isna(m) THEN cells
                  ELSE [i \in DOMAIN cells |->
                           IF IsNan(cells[i]) THEN FloatCell(m) ELSE cells[i]] \o <<>>)
            ELSE [i \in DOMAIN cells |->
                     IF IsNan(cells[i]) THEN StrCell(UNKNOWN_TEXT) ELSE cells[i]] \o <<>>
    IN  Filled(median(cells))

\* one column of the table returned: converted if it is one of
\* NUMERIC_COLUMNS, then filled
LoadedColumn(df, col) ==
    FillColumn(col, IF col \in NUMERIC_COLUMNS
                    THEN ConvertColumn(col, Column(df, col))
                    ELSE Column(df, col))

\* the table built of its columns
FromColumns(df, cols) ==
    DataFrame(df.columns,
              [i \in DOMAIN df.rows |->
                  [index |-> df.rows[i].index,
                   v |-> [c \in df.columns |-> cols[c][i]] @@ <<>>]] \o <<>>)

\* the table returned, NoneDF standing for None
load_and_process_csv(file) ==
    LET Processed(rd) ==
            IF rd.error # "none" THEN NoneDF
            ELSE IF \E i \in DOMAIN REQUIRED_COLUMNS : REQUIRED_COLUMNS[i] \notin rd.df.columns
            THEN NoneDF
            ELSE IF \E c \in NUMERIC_COLUMNS : ~HasStrAccessor(PrepareColumn(Column(rd.df, c)))
            THEN NoneDF
            ELSE FromColumns(rd.df, [c \in rd.df.columns |-> LoadedColumn(rd.df, c)] @@ <<>>)
    IN  Processed(read_csv(file, 0))

\* the text DataFrame.to_csv writes for a cell
CellText(cell) ==
    CASE cell.kind = "str"   -> cell.s
      [] cell.kind = "int"   -> FormatInt(cell.x)
      [] cell.kind = "float" -> FormatFloat(cell.x)
      [] cell.kind = "nan"   -> <<>>

\* the file a table is written to by to_csv(index=False)
to_csv(df) ==
    CsvFile("csv", df.columns,
            [i \in DOMAIN df.rows |-> [c \in df.columns |-> CellText(df.rows[i].v[c])] @@ <<>>] \o <<>>)

-----------------------------------------------------------------------------
(* validate_csv                                                            *)

\* (is_valid, error_message): the fixed text of the message, the column
\* named in it, the items listed in it and the count after "and ... more"
Validation(is_valid, message, column, items, more) ==
    [is_valid |-> is_valid, message |-> message, column |-> column,
     items |-> items, more |-> more]

NoValidation == Validation(FALSE, "no call made yet", "", <<>>, 0)

MSG_EMPTY       == "The CSV file is empty"
MSG_PARSER      == "The file is not a valid CSV format"
MSG_MISSING     == "Missing required columns: "
MSG_NON_NUMERIC == "Column '{col}' contains non-numeric values: "
MSG_TO_NUMERIC  == "Column '{col}' must contain numeric values (when not blank). Error: "

\* the texts the loop skips as recognised missing-value terms
SKIPPED_TERMS ==
    { <<"n", "a">>, <<"n", "/", "a">>, <<"u", "n", "k", "n", "o", "w", "n">>,
      <<"n", "u", "l", "l">>, <<"n", "a", "n">>, <<"-">> }

NAN_SPELLINGS ==
    { <<"n", "a", "n">>, <<"N", "a", "N">>, <<"N", "a", "n">>, <<"N", "A", "N">> }

\* values = df[col].astype(str) with the nan spellings made empty
ValidationValues(cells) ==
    [i \in DOMAIN cells |->
        IF astype_str(cells[i]).s \in NAN_SPELLINGS THEN <<>>
        ELSE astype_str(cells[i]).s] \o <<>>

IsSkipped(val) ==
    \/ val = <<>>
    \/ strip(val) = <<>>
    \/ lower(val) \in SKIPPED_TERMS
    \/ strip(lower(val)) = NAN_TEXT

\* the rows whose value float() rejects, in row order
ProblematicRows(values) ==
    LET Bad(i) == /\ ~IsSkipped(values[i])
                  /\ ~ParseNumber(replace(values[i], UNICODE_MINUS, <<"-">>)).ok
        RECURSIVE Collect(_)
        Collect(i) == IF i > Len(values) THEN <<>>
                      ELSE (IF Bad(i) THEN <<i>> ELSE <<>>) \o Collect(i + 1)
    IN  Collect(1)

\* values.str.replace('(?i)nan', '', regex=True)
RECURSIVE RemoveNan(_)
RemoveNan(s) ==
    IF Len(s) >= 3 /\ lower(SubSeq(s, 1, 3)) = NAN_TEXT
    THEN RemoveNan(SubSeq(s, 4, Len(s)))
    ELSE IF s = <<>> THEN <<>>
    ELSE <<Head(s)>> \o RemoveNan(Tail(s))

\* pd.to_numeric(non_empty_values) raises
ToNumericRaises(values) ==
    \E i \in DOMAIN values :
        LET v == RemoveNan(replace(values[i], UNICODE_MINUS, <<"-">>))
        IN  strip(v) # <<>> /\ ~ParseNumber(v).ok

\* the check of one numeric column (lines 36-83)
ColumnCheck(col, cells) ==
    LET Report(values, bad) ==
            IF bad # <<>>
            THEN Validation(FALSE, MSG_NON_NUMERIC, col,
                            [j \in 1..(IF Len(bad) > 3 THEN 3 ELSE Len(bad)) |->
                                <<bad[j], Join(values[bad[j]])>>] \o <<>>,
                            IF Len(bad) > 3 THEN Len(bad) - 3 ELSE 0)
            ELSE IF ToNumericRaises(values)
            THEN Validation(FALSE, MSG_TO_NUMERIC, col, <<>>, 0)
            ELSE Validation(TRUE, "", "", <<>>, 0)
        Checked(values) == Report(values, ProblematicRows(values))
    IN  Checked(ValidationValues(cells))

\* the checks of the numeric columns from the k-th on, the first failure
\* deciding
RECURSIVE CheckColumnsFrom(_, _)
CheckColumnsFrom(df, k) ==
    IF k > Len(NUMERIC_COLUMNS_LIST) THEN Validation(TRUE, "", "", <<>>, 0)
    ELSE LET Decide(res) == IF ~res.is_valid THEN res ELSE CheckColumnsFrom(df, k + 1)
         IN  Decide(ColumnCheck(NUMERIC_COLUMNS_LIST[k],
                                Column(df, NUMERIC_COLUMNS_LIST[k])))

missing_columns(df) ==
    LET Missing(col) == col \notin df.columns
    IN  SelectSeq(REQUIRED_COLUMNS, Missing)

validate_csv(file) ==
    LET Checked(rd) ==
            IF rd.error = "EmptyDataError" THEN Validation(FALSE, MSG_EMPTY, "", <<>>, 0)
            ELSE IF rd.error = "ParserError" THEN Validation(FALSE, MSG_PARSER, "", <<>>, 0)
            ELSE IF missing_columns(rd.df) # <<>>
            THEN Validation(FALSE, MSG_MISSING, "", missing_columns(rd.df), 0)
            ELSE CheckColumnsFrom(rd.df, 1)
    IN  Checked(read_csv(file, 5))

-----------------------------------------------------------------------------
(* Load operations of the pages                                            *)

\* the category texts of a loaded table; rows without category form no group
LoadedCategories(df) ==
    { df.rows[i].v[COL_CAT].s : i \in { j \in DOMAIN df.rows : IsStr(df.rows[j].v[COL_CAT]) } }

\* the mean of the numbers of a column over the rows of one category
LoadedGroupMean(df, cat, col) ==
    LET InGroup(row) == /\ IsStr(row.v[COL_CAT]) /\ row.v[COL_CAT].s = cat
                        /\ IsNum(row.v[col])
        group == SelectSeq(df.rows, InGroup)
    IN  IF group = <<>> THEN NaN
        ELSE RDivInt(RSum([i \in DOMAIN group |-> group[i].v[col].x] \o <<>>), Len(group))

\* avg_fields of the load pages
load_avg_fields == {COL_RETURN, COL_FEE, COL_BETA, COL_STDEV, COL_SHARPE}

\* subset_for_avg.groupby('Morningstar Category').mean(numeric_only=True)
\* on a loaded table
LoadedGroupbyMean(df) ==
    LET fields == (load_avg_fields \cap df.columns) \cap numeric_cols(df)
    IN  [isNone |-> FALSE, columns |-> fields,
         mean |-> [c \in LoadedCategories(df) |->
                     [f \in fields |-> LoadedGroupMean(df, c, f)] @@ <<>>] @@ <<>>]

\* a direct call of validate_csv on the file at hand
CallValidateCsv ==
    /\ uploaded_file # NoFile
    /\ validation' = validate_csv(uploaded_file)
    /\ last_op' = "validate"
    /\ UNCHANGED <<sliders, portfolioVars, storageVars, heapVars>>
    /\ UNCHANGED <<combined_data, hub24_apir_codes, hub24_filtered, filtered_selection,
                   formula, formula_result, filter_result, current_data_averages,
                   selection_df, uploaded_file, load_result, dataframes,
                   asset_class_averages>>
    /\ UNCHANGED extractVars

\* a direct call of load_and_process_csv on the file at hand
CallLoadAndProcessCsv ==
    /\ uploaded_file # NoFile
    /\ load_result' = load_and_process_csv(uploaded_file)
    /\ last_op' = "load"
    /\ UNCHANGED <<sliders, portfolioVars, storageVars, heapVars>>
    /\ UNCHANGED <<combined_data, hub24_apir_codes, hub24_filtered, filtered_selection,
                   formula, formula_result, filter_result, current_data_averages,
                   selection_df, uploaded_file, validation, dataframes,
                   asset_class_averages>>
    /\ UNCHANGED extractVars

\* the table returned is downloaded as a CSV file and that file is loaded
ReloadOutput ==
    /\ last_op = "load"
    /\ ~load_result.isNone
    /\ \E file \in {to_csv(load_result)} :
           /\ uploaded_file' = file
           /\ load_result' = load_and_process_csv(file)
    /\ last_op' = "reload"
    /\ UNCHANGED <<sliders, portfolioVars, storageVars, heapVars>>
    /\ UNCHANGED <<combined_data, hub24_apir_codes, hub24_filtered, filtered_selection,
                   formula, formula_result, filter_result, current_data_averages,
                   selection_df, validation, dataframes, asset_class_averages>>
    /\ UNCHANGED extractVars

\* Process Files on the import page, one file uploaded
ProcessFiles ==
    /\ uploaded_file # NoFile
    /\ \E res \in {validate_csv(uploaded_file)} :
       \E df \in {IF res.is_valid THEN load_and_process_csv(uploaded_file) ELSE NoneDF} :
           /\ validation' = res
           /\ load_result' = IF res.is_valid THEN df ELSE load_result
           /\ dataframes' = IF df.isNone THEN <<>> ELSE <<df>>
           /\ IF ~df.isNone
              THEN /\ combined_data' = df
                   /\ hub24_filtered' = NoneDF
                   /\ filtered_selection' = NoneDF
                   /\ asset_class_averages' = LoadedGroupbyMean(df)
              ELSE UNCHANGED <<combined_data, hub24_filtered, filtered_selection,
                               asset_class_averages>>
    /\ last_op' = "import"
    /\ UNCHANGED <<sliders, portfolioVars, storageVars, heapVars>>
    /\ UNCHANGED <<hub24_apir_codes, formula, formula_result, filter_result,
                   current_data_averages, selection_df, uploaded_file>>
    /\ UNCHANGED extractVars

\* what Process Data and Load Example Data do with the file they read
StoreRead(file) ==
    \E rd \in {read_csv(file, 0)} :
        IF rd.error # "none"
        THEN UNCHANGED <<combined_data, dataframes, asset_class_averages>>
        ELSE /\ combined_data' = rd.df
             /\ dataframes' = <<rd.df>>
             /\ asset_class_averages' =
                    IF COL_CAT \in rd.df.columns /\ load_avg_fields \cap rd.df.columns # {}
                    THEN LoadedGroupbyMean(rd.df)
                    ELSE asset_class_averages

\* Process Data on the simplified upload page
ProcessData ==
    /\ uploaded_file # NoFile
    /\ StoreRead(uploaded_file)
    /\ last_op' = "upload"
    /\ UNCHANGED <<sliders, portfolioVars, storageVars, heapVars>>
    /\ UNCHANGED <<hub24_apir_codes, hub24_filtered, filtered_selection, formula,
                   formula_result, filter_result, current_data_averages, selection_df,
                   uploaded_file, validation, load_result>>
    /\ UNCHANGED extractVars

\* Load Example Data on the direct-load page; the file read is
\* example_investment_data.csv of the working directory
LoadExampleData(example_file) ==
    /\ StoreRead(example_file)
    /\ last_op' = "direct"
    /\ UNCHANGED <<sliders, portfolioVars, storageVars, heapVars>>
    /\ UNCHANGED <<hub24_apir_codes, hub24_filtered, filtered_selection, formula,
                   formula_result, filter_result, current_data_averages, selection_df,
                   uploaded_file, validation, load_result>>
    /\ UNCHANGED extractVars

\* the dictionary of the Load Sample Data button
sample_data ==
    (COL_NAME :>
        <<StrCell(<<"G", "r", "o", "w", "t", "h", " ", "F", "u", "n", "d">>),
          StrCell(<<"I", "n", "c", "o", "m", "e", " ", "F", "u", "n", "d">>),
          StrCell(<<"B", "a", "l", "a", "n", "c", "e", "d", " ", "F", "u", "n", "d">>),
          StrCell(<<"G", "l", "o", "b", "a", "l", " ", "E", "T", "F">>),
          StrCell(<<"P", "r", "o", "p", "e", "r", "t", "y", " ", "F", "u", "n", "d">>),
          StrCell(<<"C", "o", "n", "s", "e", "r", "v", "a", "t", "i", "v", "e", " ", "F", "u", "n", "d">>),
          StrCell(<<"S", "m", "a", "l", "l", " ", "C", "a", "p", " ", "F", "u", "n", "d">>),
          StrCell(<<"E", "m", "e", "r", "g", "i", "n", "g", " ", "M", "a", "r", "k", "e", "t", "s">>),
          StrCell(<<"I", "n", "t", "e", "r", "n", "a", "t", "i", "o", "n", "a", "l", " ", "S", "h", "a", "r", "e", "s">>),
          StrCell(<<"B", "o", "n", "d", " ", "F", "u", "n", "d">>),
          StrCell(<<"T", "e", "c", "h", "n", "o", "l", "o", "g", "y", " ", "F", "u", "n", "d">>),
          StrCell(<<"H", "e", "a", "l", "t", "h", "c", "a", "r", "e", " ", "F", "u", "n", "d">>),
          StrCell(<<"S", "u", "s", "t", "a", "i", "n", "a", "b", "l", "e", " ", "F", "u", "n", "d">>),
          StrCell(<<"F", "i", "x", "e", "d", " ", "T", "e", "r", "m">>),
          StrCell(<<"C", "a", "s", "h", " ", "F", "u", "n", "d">>)>>) @@
    (COL_APIR :>
        <<StrCell(<<"A", "B", "C", "1", "2", "3", "A", "U">>),
          StrCell(<<"D", "E", "F", "4", "5", "6", "A", "U">>),
          StrCell(<<"G", "H", "I", "7", "8", "9", "A", "U">>),
          StrCell(<<"J", "K", "L", "0", "1", "2", "A", "U">>),
          StrCell(<<"M", "N", "O", "3", "4", "5", "A", "U">>),
          StrCell(<<"P", "Q", "R", "6", "7", "8", "A", "U">>),
          StrCell(<<"S", "T", "U", "9", "0", "1", "A", "U">>),
          StrCell(<<"V", "W", "X", "2", "3", "4", "A", "U">>),
          StrCell(<<"Y", "Z", "A", "5", "6", "7", "A", "U">>),
          StrCell(<<"B", "C", "D", "8", "9", "0", "A", "U">>),
          StrCell(<<"E", "F", "G", "1", "2", "3", "A", "U">>),
          StrCell(<<"H", "I", "J", "4", "5", "6", "A", "U">>),
          StrCell(<<"K", "L", "M", "7", "8", "9", "A", "U">>),
          StrCell(<<"N", "O", "P", "0", "1", "2", "A", "U">>),
          StrCell(<<"Q", "R", "S", "3", "4", "5", "A", "U">>)>>) @@
    (COL_CAT :>
        <<StrCell(<<"A", "u", "s", "t", "r", "a", "l", "i", "a", "n", " ", "E", "q", "u", "i", "t", "y", " ", "L", "a", "r", "g", "e", " ", "B", "l", "e", "n", "d">>),
          StrCell(<<"F", "i", "x", "e", "d", " ", "I", "n", "c", "o", "m", "e">>),
          StrCell(<<"D", "i", "v", "e", "r", "s", "i", "f", "i", "e", "d">>),
          StrCell(<<"G", "l", "o", "b", "a", "l", " ", "E", "q", "u", "i", "t", "y">>),
          StrCell(<<"R", "e", "a", "l", " ", "E", "s", "t", "a", "t", "e">>),
          StrCell(<<"C", "o", "n", "s", "e", "r", "v", "a", "t", "i", "v", "e", " ", "A", "l", "l", "o", "c", "a", "t", "i", "o", "n">>),
          StrCell(<<"A", "u", "s", "t", "r", "a", "l", "i", "a", "n", " ", "E", "q", "u", "i", "t", "y", " ", "S", "m", "a", "l", "l", " ", "C", "a", "p">>),
          StrCell(<<"E", "m", "e", "r", "g", "i", "n", "g", " ", "M", "a", "r", "k", "e", "t", "s">>),
          StrCell(<<"I", "n", "t", "e", "r", "n", "a", "t", "i", "o", "n", "a", "l", " ", "E", "q", "u", "i", "t", "y">>),
          StrCell(<<"F", "i", "x", "e", "d", " ", "I", "n", "c", "o", "m", "e", " ", "G", "l", "o", "b", "a", "l">>),
          StrCell(<<"S", "e", "c", "t", "o", "r", " ", "E", "q", "u", "i", "t", "y", " ", "T", "e", "c", "h", "n", "o", "l", "o", "g", "y">>),
          StrCell(<<"S", "e", "c", "t", "o", "r", " ", "E", "q", "u", "i", "t", "y", " ", "H", "e", "a", "l", "t", "h", "c", "a", "r", "e">>),
          StrCell(<<"E", "S", "G">>),
          StrCell(<<"F", "i", "x", "e", "d", " ", "I", "n", "c", "o", "m", "e", " ", "A", "u", "s", "t", "r", "a", "l", "i", "a">>),
          StrCell(<<"C", "a", "s", "h">>)>>) @@
    (COL_RETURN :>
        <<FloatCell(Rat(41, 5)), FloatCell(Rat(9, 2)),
          FloatCell(Rat(63, 10)), FloatCell(Rat(97, 10)),
          FloatCell(Rat(29, 5)), FloatCell(Rat(19, 5)),
          FloatCell(Rat(21, 2)), FloatCell(Rat(123, 10)),
          FloatCell(Rat(89, 10)), FloatCell(Rat(16, 5)),
          FloatCell(Rat(29, 2)), FloatCell(Rat(49, 5)),
          FloatCell(Rat(15, 2)), FloatCell(Rat(18, 5)), FloatCell(Rat(9, 5))>>) @@
    (COL_FEE :>
        <<FloatCell(Rat(17, 20)), FloatCell(Rat(13, 20)),
          FloatCell(Rat(3, 4)), FloatCell(Rat(19, 20)),
          FloatCell(Rat(9, 10)), FloatCell(Rat(3, 5)), FloatCell(Rat(6, 5)),
          FloatCell(Rat(3, 2)), FloatCell(Rat(19, 20)), FloatCell(Rat(1, 2)),
          FloatCell(Rat(11, 10)), FloatCell(Rat(1, 1)),
          FloatCell(Rat(17, 20)), FloatCell(Rat(11, 20)),
          FloatCell(Rat(3, 10))>>) @@
    (COL_STYLEBOX :>
        <<StrCell(<<"L", "a", "r", "g", "e", " ", "G", "r", "o", "w", "t", "h">>),
          StrCell(<<"M", "i", "d", " ", "V", "a", "l", "u", "e">>),
          StrCell(<<"M", "i", "d", " ", "B", "l", "e", "n", "d">>),
          StrCell(<<"L", "a", "r", "g", "e", " ", "V", "a", "l", "u", "e">>),
          StrCell(<<"S", "m", "a", "l", "l", " ", "V", "a", "l", "u", "e">>),
          StrCell(<<"M", "i", "d", " ", "B", "l", "e", "n", "d">>),
          StrCell(<<"S", "m", "a", "l", "l", " ", "G", "r", "o", "w", "t", "h">>),
          StrCell(<<"L", "a", "r", "g", "e", " ", "G", "r", "o", "w", "t", "h">>),
          StrCell(<<"L", "a", "r", "g", "e", " ", "G", "r", "o", "w", "t", "h">>),
          StrCell(<<"M", "i", "d", " ", "V", "a", "l", "u", "e">>),
          StrCell(<<"L", "a", "r", "g", "e", " ", "G", "r", "o", "w", "t", "h">>),
          StrCell(<<"L", "a", "r", "g", "e", " ", "B", "l", "e", "n", "d">>),
          StrCell(<<"L", "a", "r", "g", "e", " ", "G", "r", "o", "w", "t", "h">>),
          StrCell(<<"M", "i", "d", " ", "V", "a", "l", "u", "e">>),
          StrCell(<<"M", "i", "d", " ", "B", "l", "e", "n", "d">>)>>) @@
    (COL_RATING :>
        <<IntCell(Rat(5, 1)), IntCell(Rat(4, 1)), IntCell(Rat(3, 1)),
          IntCell(Rat(4, 1)), IntCell(Rat(3, 1)), IntCell(Rat(4, 1)),
          IntCell(Rat(5, 1)), IntCell(Rat(4, 1)), IntCell(Rat(4, 1)),
          IntCell(Rat(3, 1)), IntCell(Rat(5, 1)), IntCell(Rat(4, 1)),
          IntCell(Rat(4, 1)), IntCell(Rat(3, 1)), IntCell(Rat(3, 1))>>) @@
    (COL_BETA :>
        <<FloatCell(Rat(11, 10)), FloatCell(Rat(2, 5)), FloatCell(Rat(4, 5)),
          FloatCell(Rat(6, 5)), FloatCell(Rat(9, 10)), FloatCell(Rat(1, 2)),
          FloatCell(Rat(7, 5)), FloatCell(Rat(3, 2)), FloatCell(Rat(11, 10)),
          FloatCell(Rat(3, 10)), FloatCell(Rat(13, 10)),
          FloatCell(Rat(9, 10)), FloatCell(Rat(1, 1)), FloatCell(Rat(2, 5)),
          FloatCell(Rat(1, 10))>>) @@
    (COL_STDEV :>
        <<FloatCell(Rat(25, 2)), FloatCell(Rat(16, 5)),
          FloatCell(Rat(37, 5)), FloatCell(Rat(141, 10)),
          FloatCell(Rat(58, 5)), FloatCell(Rat(24, 5)),
          FloatCell(Rat(81, 5)), FloatCell(Rat(187, 10)),
          FloatCell(Rat(66, 5)), FloatCell(Rat(14, 5)),
          FloatCell(Rat(35, 2)), FloatCell(Rat(56, 5)),
          FloatCell(Rat(21, 2)), FloatCell(Rat(7, 2)), FloatCell(Rat(9, 10))>>) @@
    (COL_SHARPE :>
        <<FloatCell(Rat(13, 20)), FloatCell(Rat(19, 20)),
          FloatCell(Rat(18, 25)), FloatCell(Rat(17, 25)),
          FloatCell(Rat(11, 20)), FloatCell(Rat(4, 5)),
          FloatCell(Rat(7, 10)), FloatCell(Rat(18, 25)),
          FloatCell(Rat(67, 100)), FloatCell(Rat(9, 10)),
          FloatCell(Rat(41, 50)), FloatCell(Rat(3, 4)),
          FloatCell(Rat(7, 10)), FloatCell(Rat(17, 20)), FloatCell(Rat(1, 2))>>)

\* pd.DataFrame(sample_data)
SampleTable ==
    LET Table(data) ==
            DataFrame(DOMAIN data,
                      [i \in 1..Len(data[COL_NAME]) |->
                          [index |-> i - 1,
                           v |-> [c \in DOMAIN data |-> data[c][i]] @@ <<>>]] \o <<>>)
    IN  Table(sample_data)

\* Load Sample Data on the import page
LoadSampleData ==
    /\ \E df \in {SampleTable} :
           /\ dataframes' = <<df>>
           /\ combined_data' = df
           /\ asset_class_averages' = LoadedGroupbyMean(df)
    /\ hub24_filtered' = NoneDF
    /\ filtered_selection' = NoneDF
    /\ last_op' = "sample"
    /\ UNCHANGED <<sliders, portfolioVars, storageVars, heapVars>>
    /\ UNCHANGED <<hub24_apir_codes, formula, formula_result, filter_result,
                   current_data_averages, selection_df, uploaded_file, validation,
                   load_result>>
    /\ UNCHANGED extractVars

-----------------------------------------------------------------------------
(* Widgets, portfolio and storage at the start of a session                *)

\* the six sliders of the Advanced Filters tab; the two percentiles are
\* whole numbers
Sliders(min_return, max_expense, max_risk, min_sharpe, return_percentile,
        expense_percentile) ==
    [min_return |-> min_return, max_expense |-> max_expense,
     max_risk |-> max_risk, min_sharpe |-> min_sharpe,
     return_percentile |-> return_percentile,
     expense_percentile |-> expense_percentile]

\* value= of the six st.slider calls
DEFAULT_SLIDERS == Sliders(Rat(0, 1), Rat(3, 1), Rat(30, 1), Rat(0, 1), 0, 100)

NoCall == [fn |-> "none", arg |-> 0, ret |-> 0, before |-> NoneDF, modified |-> FALSE]

\* the sliders at their defaults, empty dictionaries, nothing stored
InitPages ==
    /\ sliders = DEFAULT_SLIDERS
    /\ recommended_portfolio = <<>>
    /\ portfolio_allocations = <<>>
    /\ session_state = <<>>
    /\ store_log = <<>>
    /\ objects = <<>>
    /\ call = NoCall

-----------------------------------------------------------------------------
(* Input domains                                                           *)

ScoreCategories == {"X", "Y"}

\* <<StdDev, Sharpe, Beta>> of a row: the two rows of the worked example, a
\* row lacking one of the metrics, a row lacking all three
ScoreRowValues ==
    { <<Rat(10, 1), Rat(1, 2), Rat(1, 1)>>,
      <<Rat(20, 1), Rat(3, 2), Rat(4, 5)>>,
      <<NaN, Rat(1, 2), Rat(1, 1)>>,
      <<Rat(10, 1), NaN, Rat(1, 1)>>,
      <<Rat(10, 1), Rat(1, 2), NaN>>,
      <<NaN, NaN, NaN>> }

FundName(i) == <<"A", "B", "C", "D">>[i]
FundApir(i) == <<"AAA001AU", "BBB002AU", "CCC003AU", "DDD004AU">>[i]

\* tables as a load leaves them: index 0..n-1, a category on every row,
\* return and fee present, the three scoring metrics possibly missing
ScoreRowSeqs(n) ==
    { [i \in 1..n |-> MkRow(i - 1, FundName(i), FundApir(i), c[i],
                            Rat(5, 1), Rat(1, 1), r[i][3], r[i][1], r[i][2])] :
        c \in [1..n -> ScoreCategories], r \in [1..n -> ScoreRowValues] }

ScoreTables ==
    { DataFrame(AllColumns, rows) : rows \in UNION { ScoreRowSeqs(n) : n \in 1..MaxRows } }

InitScore ==
    /\ combined_data \in ScoreTables
    /\ hub24_apir_codes = <<>>
    /\ hub24_filtered = NoneDF
    /\ filtered_selection = NoneDF
    /\ formula = EmptyFormula
    /\ formula_result = NoResult
    /\ filter_result = NoFilterResult
    /\ current_data_averages = NoAverages
    /\ selection_df = NoneDF
    /\ hub24_pdf = NoPdf
    /\ extract_result = NoExtractResult
    /\ uploaded_file = NoFile
    /\ validation = NoValidation
    /\ load_result = NoneDF
    /\ dataframes = IF combined_data.isNone THEN <<>> ELSE <<combined_data>>
    /\ asset_class_averages = calculate_asset_class_averages(combined_data)
    /\ last_op = "init"
    /\ InitPages

NextScore == RenderAnalysis

SpecScore == InitScore /\ [][NextScore]_vars

\* formula tables: rows with fee 0.75 and return 8.5 or fee 1.2 and return
\* 9.0, and a row whose beta is missing; <<fee, return, beta>>
FormulaRowValues ==
    { <<Rat(3, 4), Rat(17, 2), Rat(4, 5)>>,
      <<Rat(6, 5), Rat(9, 1), Rat(4, 5)>>,
      <<Rat(3, 4), Rat(17, 2), NaN>> }

FormulaRowSeqs(n) ==
    { [i \in 1..n |-> MkRow(i - 1, FundName(i), FundApir(i), "X",
                            r[i][2], r[i][1], r[i][3], Rat(10, 1), Rat(1, 2))] :
        r \in [1..n -> FormulaRowValues] }

FormulaTables ==
    { DataFrame(AllColumns, rows) :
        rows \in UNION { FormulaRowSeqs(n) : n \in 1..MaxFormulaRows } }

\* the formulas tried
Formulas ==
    { Cmp("beta", op, 1) : op \in CompareOps }
    \cup { Cmp(a, ">", 7) : a \in DOMAIN rename_map }
    \cup { Cmp("expense_ratio", "<", 1),
           Cmp(COL_RETURN, ">", 7), Cmp(Backtick[COL_RETURN], ">", 7),
           Cmp("foo", ">", 1), Cmp("Name", ">", 1), Cmp("top_n_pct", "<", 1),
           And("expense_ratio", "<", 1, "return", ">", 7),
           And("expense_ratio", "<", 1, "beta", "<", 1),
           And("beta", "<", 1, "foo", ">", 1),
           And("foo", ">", 1, "beta", "<", 1),
           Amp("expense_ratio", "<", 1, "beta", "<", 1),
           Amp("beta", "<", 1, "foo", ">", 1),
           Amp(Backtick[COL_RETURN], ">", 5, Backtick[COL_FEE], "<", 1),
           Helper("top_n_pct", "expense_ratio", 50),
           Helper("bottom_n_pct", "beta", 50),
           Helper("top_n_pct", "beta", 150),
           Helper("foo", "beta", 50),
           Attr("beta", "to_csv"), Attr("foo", "to_csv"),
           Dangling("beta", "<"), EmptyFormula }

InitFormula ==
    /\ combined_data \in FormulaTables
    /\ hub24_apir_codes \in { <<"ZZZ999AU">>, <<"BBB002AU">> }
    /\ hub24_filtered = NoneDF
    /\ filtered_selection = NoneDF
    /\ formula = EmptyFormula
    /\ formula_result = NoResult
    /\ filter_result = NoFilterResult
    /\ current_data_averages = NoAverages
    /\ selection_df = NoneDF
    /\ hub24_pdf = NoPdf
    /\ extract_result = NoExtractResult
    /\ uploaded_file = NoFile
    /\ validation = NoValidation
    /\ load_result = NoneDF
    /\ dataframes = IF combined_data.isNone THEN <<>> ELSE <<combined_data>>
    /\ asset_class_averages = calculate_asset_class_averages(combined_data)
    /\ last_op = "init"
    /\ InitPages

NextFormula ==
    \/ \E f \in Formulas : ApplyCustomFormula(f)
    \/ FilterByHub24Options

SpecFormula == InitFormula /\ [][NextFormula]_vars

\* tables given to the preset strategies.  <<category, return, fee, beta,
\* StdDev, Sharpe>> of a row: an income fund, funds of another category with
\* and without a Sharpe ratio, a fund without any metric; the code list
\* names the second fund
StrategyRowValues ==
    { <<"Fixed Income", Rat(6, 1), Rat(1, 2), Rat(1, 2), Rat(8, 1), Rat(6, 5)>>,
      <<"X", Rat(8, 1), Rat(6, 5), Rat(11, 10), Rat(16, 1), Rat(3, 5)>>,
      <<"X", Rat(4, 1), Rat(9, 10), Rat(7, 10), Rat(12, 1), NaN>>,
      <<"Fixed Income", NaN, NaN, NaN, NaN, NaN>> }

StrategyRowSeqs(n) ==
    { [i \in 1..n |-> MkRow(i - 1, FundName(i), FundApir(i), r[i][1],
                            r[i][2], r[i][3], r[i][4], r[i][5], r[i][6])] :
        r \in [1..n -> StrategyRowValues] }

StrategyTables ==
    { DataFrame(AllColumns, rows) :
        rows \in UNION { StrategyRowSeqs(n) : n \in 1..MaxStrategyRows } }

InitStrategy ==
    /\ combined_data \in StrategyTables
    /\ hub24_apir_codes = <<"BBB002AU">>
    /\ hub24_filtered = NoneDF
    /\ filtered_selection = NoneDF
    /\ formula = EmptyFormula
    /\ formula_result = NoResult
    /\ filter_result = NoFilterResult
    /\ current_data_averages = NoAverages
    /\ selection_df = NoneDF
    /\ hub24_pdf = NoPdf
    /\ extract_result = NoExtractResult
    /\ uploaded_file = NoFile
    /\ validation = NoValidation
    /\ load_result = NoneDF
    /\ dataframes = <<combined_data>>
    /\ asset_class_averages = calculate_asset_class_averages(combined_data)
    /\ last_op = "init"
    /\ InitPages

NextStrategy ==
    \/ \E strategy \in STRATEGIES : \E empty_raises \in BOOLEAN :
           ApplyStrategy(strategy, empty_raises)
    \/ FilterByHub24Options

SpecStrategy == InitStrategy /\ [][NextStrategy]_vars

\* platform-filter inputs: no table, a table with or without the APIR Code
\* column, codes in either case, code lists with and without a match
FilterApirValues == {"AAA001AU", "aaa001au", "BBB002AU"}
FilterCodeValues == {"AAA001AU", "BBB002AU", "ZZZ999AU"}

FilterRowSeqs(n) ==
    { [i \in 1..n |-> MkRow(i - 1, FundName(i), a[i], "X", Rat(5, 1), Rat(1, 1),
                            Rat(1, 1), Rat(10, 1), Rat(1, 2))] :
        a \in [1..n -> FilterApirValues] }

\* the table without one of its columns
DropColumn(df, col) ==
    DataFrame(df.columns \ {col},
              [i \in DOMAIN df.rows |->
                  [index |-> df.rows[i].index,
                   v |-> [c \in df.columns \ {col} |-> df.rows[i].v[c]]]])

FilterTables ==
    LET full == { DataFrame(AllColumns, rows) :
                    rows \in UNION { FilterRowSeqs(n) : n \in 0..MaxFilterRows } }
    IN  full \cup { DropColumn(df, COL_APIR) : df \in full } \cup {NoneDF}

CodeLists == UNION { [1..n -> FilterCodeValues] : n \in 0..MaxCodes }

InitFilter ==
    /\ combined_data \in FilterTables
    /\ hub24_apir_codes \in CodeLists
    /\ hub24_filtered = NoneDF
    /\ filtered_selection = NoneDF
    /\ formula = EmptyFormula
    /\ formula_result = NoResult
    /\ filter_result = NoFilterResult
    /\ current_data_averages = NoAverages
    /\ selection_df = NoneDF
    /\ hub24_pdf = NoPdf
    /\ extract_result = NoExtractResult
    /\ uploaded_file = NoFile
    /\ validation = NoValidation
    /\ load_result = NoneDF
    /\ dataframes = IF combined_data.isNone THEN <<>> ELSE <<combined_data>>
    /\ asset_class_averages = calculate_asset_class_averages(combined_data)
    /\ last_op = "init"
    /\ InitPages

NextFilter == CallFilterInvestmentsByApir

SpecFilter == InitFilter /\ [][NextFilter]_vars

\* documents: page texts with codes in the standard form, broken by a space,
\* a hyphen or a line break, words without digits, and pages without text
\* the page of the documented scenario
TEXT_AVAILABLE ==
    <<"F", "u", "n", "d", " ", "A", "B", "C", "1", "2", "3", "A", "U", " ", "i", "s", " ", "a", "v", "a", "i", "l", "a", "b", "l", "e">>

\* three letters and nothing else
TEXT_LETTERS ==
    <<"X", "Y", "Z">>

\* a code broken by spaces
TEXT_SPACED ==
    <<"A", "B", "C", " ", "1", "2", "3", " ", "A", "U">>

\* a code broken by a hyphen
TEXT_HYPHEN ==
    <<"B", "B", "B", "-", "0", "0", "2", "A", "U">>

\* a code broken by a line break
TEXT_NEWLINE ==
    <<"A", "B", "C", "\n", "1", "2", "3", "A", "U">>

\* two words on two lines
TEXT_WORDS ==
    <<"F", "U", "N", "D", "S", "\n", "L", "I", "S", "T">>

\* two codes of the fund table
TEXT_LISTED ==
    <<"B", "B", "B", "0", "0", "2", "A", "U", " ", "A", "A", "A", "0", "0", "1", "A", "U">>

\* a code followed by a tab
TEXT_TRAILING ==
    <<"B", "B", "B", "0", "0", "2", "A", "U", "\t", "y", "e", "s">>

PageTexts ==
    {TEXT_AVAILABLE, TEXT_LETTERS, TEXT_SPACED, TEXT_HYPHEN, TEXT_NEWLINE,
     TEXT_WORDS, TEXT_LISTED, TEXT_TRAILING}

TextPage(text) == [fails |-> FALSE, text |-> text]
FailingPage == [fails |-> TRUE, text |-> <<>>]

Pages == { TextPage(t) : t \in PageTexts } \cup {FailingPage}

\* the pages a document goes on with after its second page
CompanionPages == {TextPage(TEXT_AVAILABLE), FailingPage}

PageSeqs(n) ==
    { pages \in [1..n -> Pages] : \A i \in 3..n : pages[i] \in CompanionPages }

Documents ==
    { Pdf(TRUE, pages) : pages \in UNION { PageSeqs(n) : n \in 0..MaxPages } }
        \cup { Pdf(FALSE, <<>>) }

ExtractTable ==
    DataFrame(AllColumns,
              [i \in 1..2 |-> MkRow(i - 1, FundName(i), FundApir(i), "X", Rat(5, 1),
                                    Rat(1, 1), Rat(1, 1), Rat(10, 1), Rat(1, 2))])

InitExtract ==
    /\ combined_data = ExtractTable
    /\ hub24_apir_codes = <<>>
    /\ hub24_filtered = NoneDF
    /\ filtered_selection = NoneDF
    /\ formula = EmptyFormula
    /\ formula_result = NoResult
    /\ filter_result = NoFilterResult
    /\ current_data_averages = NoAverages
    /\ selection_df = NoneDF
    /\ hub24_pdf \in Documents
    /\ extract_result = NoExtractResult
    /\ uploaded_file = NoFile
    /\ validation = NoValidation
    /\ load_result = NoneDF
    /\ dataframes = IF combined_data.isNone THEN <<>> ELSE <<combined_data>>
    /\ asset_class_averages = calculate_asset_class_averages(combined_data)
    /\ last_op = "init"
    /\ InitPages

NextExtract ==
    \/ ExtractApirCodes
    \/ FilterByHub24Options

SpecExtract == InitExtract /\ [][NextExtract]_vars


\* files given to the loader.  <<category, return, fee, beta>> of a row: a
\* plain row, integers, blanks, a blank category, percent and dollar signs,
\* the Unicode minus, ranges, and a zero fee in several spellings
LoadRowValues ==
    {
      <<<<"X">>, <<"8", ".", "5">>, <<"0", ".", "7", "5">>, <<"0", ".", "8">>>>,
      <<<<"Y">>, <<"9">>, <<"1", ".", "2">>, <<"1">>>>,
      <<<<>>, <<>>, <<>>, <<>>>>,
      <<<<"X">>, <<"8", ".", "5", "%">>, <<"0", ".", "5", "%">>, <<"0", ".", "8", "%">>>>,
      <<<<>>, <<"8", ".", "5">>, <<"0", ".", "7", "5">>, <<"0", ".", "8">>>>,
      <<<<"X">>, <<"U+2212", "2", ".", "5">>, <<"0", ".", "0", "0", "0">>, <<"U+2212", "0", ".", "5">>>>,
      <<<<"X">>, <<"7", "-", "9">>, <<"0", ".", "5", "-", "0", ".", "8">>, <<"0", ".", "8">>>>,
      <<<<"X">>, <<"8", ".", "5">>, <<"0">>, <<"0", ".", "8">>>>,
      <<<<"X">>, <<"8", ".", "5">>, <<"0", ".", "0">>, <<>>>>,
      <<<<"Y">>, <<"6", ".", "5">>, <<"0", ".", "0", "0">>, <<"1", ".", "1">>>>,
      <<<<"X">>, <<"8", ".", "5">>, <<"0", "%">>, <<"0", ".", "8">>>>,
      <<<<"X">>, <<"8", ".", "5">>, <<"0", "-", "0">>, <<"0", ".", "8">>>>,
      <<<<"Y">>, <<"6", ".", "5">>, <<"$", "1", ".", "2", "0">>, <<"1", ".", "1">>>> }

FundNameText(i) == << <<"A">>, <<"B">>, <<"C">>, <<"D">>, <<"E">>, <<"F">> >>[i]
FundApirText(i) ==
    << <<"A", "A", "A", "0", "0", "1", "A", "U">>, <<"B", "B", "B", "0", "0", "2", "A", "U">>,
       <<"C", "C", "C", "0", "0", "3", "A", "U">>, <<"D", "D", "D", "0", "0", "4", "A", "U">>,
       <<"E", "E", "E", "0", "0", "5", "A", "U">>, <<"F", "F", "F", "0", "0", "6", "A", "U">> >>[i]

\* the texts of the cells of one row of a file
FileRow(i, cat, ret, fee, beta) ==
    (COL_NAME :> FundNameText(i)) @@ (COL_APIR :> FundApirText(i)) @@
    (COL_CAT :> cat) @@ (COL_RETURN :> ret) @@ (COL_FEE :> fee) @@
    (COL_STYLEBOX :> <<"M", "i", "d">>) @@ (COL_RATING :> <<"4">>) @@
    (COL_BETA :> beta) @@ (COL_STDEV :> <<"1", "0", ".", "5">>) @@
    (COL_SHARPE :> <<"0", ".", "5">>)

RequiredColumnSet == Range(REQUIRED_COLUMNS)

\* the rows that accompany the first row of a file: a plain row, a row of
\* integers with a dollar sign in the fee, a blank row
CompanionRowValues ==
    {
      <<<<"X">>, <<"8", ".", "5">>, <<"0", ".", "7", "5">>, <<"0", ".", "8">>>>,
      <<<<"Y">>, <<"9">>, <<"$", "1", ".", "2", "0">>, <<"1">>>>,
      <<<<>>, <<>>, <<>>, <<>>>> }

LoadRowSeqs(n) ==
    { [i \in 1..n |-> FileRow(i, r[i][1], r[i][2], r[i][3], r[i][4])] :
        r \in { f \in [1..n -> LoadRowValues \cup CompanionRowValues] :
                   /\ f[1] \in LoadRowValues
                   /\ \A i \in 2..n : f[i] \in CompanionRowValues } }

EmptyFile == CsvFile("empty", {}, <<>>)
MalformedFile == CsvFile("malformed", {}, <<>>)

\* the file without some of its columns
WithoutColumns(file, cols) ==
    CsvFile(file.kind, file.columns \ cols,
            [i \in DOMAIN file.rows |-> [c \in file.columns \ cols |-> file.rows[i][c]]])

PlainFile ==
    CsvFile("csv", RequiredColumnSet,
            <<FileRow(1, <<"X">>, <<"8", ".", "5">>, <<"0", ".", "7", "5">>, <<"0", ".", "8">>)>>)

SpecialFiles ==
    {EmptyFile, MalformedFile,
     WithoutColumns(PlainFile, {COL_CAT, COL_FEE}),
     WithoutColumns(PlainFile, {COL_RATING})}

LoadFiles ==
    { CsvFile("csv", RequiredColumnSet, rows) :
        rows \in UNION { LoadRowSeqs(n) : n \in 1..MaxLoadRows } } \cup SpecialFiles

\* example_investment_data.csv: the file the import page offers for
\* download has no blank category; a file edited by hand may have one
ExampleFiles ==
    { PlainFile,
      CsvFile("csv", RequiredColumnSet,
              <<FileRow(1, <<"X">>, <<"8", ".", "5">>, <<"0", ".", "7", "5">>, <<"0", ".", "8">>),
                FileRow(2, <<>>, <<"9">>, <<"1", ".", "2">>, <<"1">>)>>) }

InitLoad ==
    /\ combined_data = NoneDF
    /\ hub24_apir_codes = <<>>
    /\ hub24_filtered = NoneDF
    /\ filtered_selection = NoneDF
    /\ formula = EmptyFormula
    /\ formula_result = NoResult
    /\ filter_result = NoFilterResult
    /\ current_data_averages = NoAverages
    /\ selection_df = NoneDF
    /\ hub24_pdf = NoPdf
    /\ extract_result = NoExtractResult
    /\ uploaded_file \in LoadFiles
    /\ validation = NoValidation
    /\ load_result = NoneDF
    /\ dataframes = <<>>
    /\ asset_class_averages = NoAverages
    /\ last_op = "init"
    /\ InitPages

NextLoad ==
    \/ CallLoadAndProcessCsv
    \/ ProcessFiles
    \/ ReloadOutput

SpecLoad == InitLoad /\ [][NextLoad]_vars

\* files given to the load pages: a plain file, files with a blank category
\* in one row and in every row, a file without the category column, a file
\* that is no table, the files of one row
SessionFiles ==
    ExampleFiles \cup
    { CsvFile("csv", RequiredColumnSet,
              <<FileRow(1, <<>>, <<"8", ".", "5">>, <<"0", ".", "7", "5">>, <<"0", ".", "8">>),
                FileRow(2, <<>>, <<"9">>, <<"1", ".", "2">>, <<>>)>>),
      CsvFile("csv", RequiredColumnSet,
              <<FileRow(1, <<"X">>, <<"8", ".", "5">>, <<"a", "b", "c">>, <<"0", ".", "8">>)>>),
      WithoutColumns(PlainFile, {COL_CAT, COL_FEE}),
      MalformedFile } \cup
    { CsvFile("csv", RequiredColumnSet, rows) : rows \in LoadRowSeqs(1) }

InitSession ==
    /\ combined_data = NoneDF
    /\ hub24_apir_codes = <<>>
    /\ hub24_filtered = NoneDF
    /\ filtered_selection = NoneDF
    /\ formula = EmptyFormula
    /\ formula_result = NoResult
    /\ filter_result = NoFilterResult
    /\ current_data_averages = NoAverages
    /\ selection_df = NoneDF
    /\ hub24_pdf = NoPdf
    /\ extract_result = NoExtractResult
    /\ uploaded_file \in SessionFiles
    /\ validation = NoValidation
    /\ load_result = NoneDF
    /\ dataframes = <<>>
    /\ asset_class_averages = NoAverages
    /\ last_op = "init"
    /\ InitPages

NextSession ==
    \/ ProcessFiles
    \/ ProcessData
    \/ \E example_file \in ExampleFiles : LoadExampleData(example_file)
    \/ LoadSampleData

SpecSession == InitSession /\ [][NextSession]_vars

\* files given to the validation.  <<return, fee>> of a row: numbers, a text
\* that is no number, a recognised missing-value term
ValidateRowValues ==
    {
      <<<<"8", ".", "5">>, <<"0", ".", "7", "5">>>>,
      <<<<"a", "b", "c">>, <<"0", ".", "7", "5">>>>,
      <<<<"-">>, <<"0", ".", "7", "5">>>>,
      <<<<>>, <<"x">>>> }

ValidateRowSeqs(n) ==
    { [i \in 1..n |-> FileRow(((i - 1) % 6) + 1, <<"X">>, r[i][1], r[i][2], <<"0", ".", "8">>)] :
        r \in [1..n -> ValidateRowValues] }

ValidateFiles ==
    { CsvFile("csv", RequiredColumnSet, rows) :
        rows \in UNION { ValidateRowSeqs(n) : n \in 1..MaxValidateRows } } \cup SpecialFiles

InitValidate ==
    /\ combined_data = NoneDF
    /\ hub24_apir_codes = <<>>
    /\ hub24_filtered = NoneDF
    /\ filtered_selection = NoneDF
    /\ formula = EmptyFormula
    /\ formula_result = NoResult
    /\ filter_result = NoFilterResult
    /\ current_data_averages = NoAverages
    /\ selection_df = NoneDF
    /\ hub24_pdf = NoPdf
    /\ extract_result = NoExtractResult
    /\ uploaded_file \in ValidateFiles
    /\ validation = NoValidation
    /\ load_result = NoneDF
    /\ dataframes = <<>>
    /\ asset_class_averages = NoAverages
    /\ last_op = "init"
    /\ InitPages

NextValidate == CallValidateCsv

SpecValidate == InitValidate /\ [][NextValidate]_vars

-----------------------------------------------------------------------------
(* Properties of the analysis view                                         *)

Analysed == last_op = "analysis"

\* the average the view used for the category of a row
AvgOf(row, col) == current_data_averages.mean[row.v[COL_CAT]][col]

\* C1: for every record whose three differentials are present, the Composite
\* Score equals (stddev_diff / 10) * (-1) + sharpe_diff + beta_diff with
\* stddev_diff = StdDev - category mean, sharpe_diff = Sharpe - category mean,
\* beta_diff = category mean - Beta; so a StdDev below the category mean
\* contributes positively.
C1_CompositeFormula ==
    Analysed =>
        \A i \in DOMAIN selection_df.rows :
            LET r  == selection_df.rows[i]
                sd == r.v[COL_STDEV_DIFF]
                hd == r.v[COL_SHARPE_DIFF]
                bd == r.v[COL_BETA_DIFF]
            IN  (~isna(sd) /\ ~isna(hd) /\ ~isna(bd)) =>
                    /\ sd = RSub(r.v[COL_STDEV], AvgOf(r, COL_STDEV))
                    /\ hd = RSub(r.v[COL_SHARPE], AvgOf(r, COL_SHARPE))
                    /\ bd = RSub(AvgOf(r, COL_BETA), r.v[COL_BETA])
                    /\ r.v[COL_COMPOSITE] = RAdd(RAdd(RNeg(RDivInt(sd, 10)), hd), bd)
                    /\ (RLt(r.v[COL_STDEV], AvgOf(r, COL_STDEV)) =>
                            RLt(Rat(0, 1), RSub(RSub(r.v[COL_COMPOSITE], hd), bd)))

C2_Table ==
    DataFrame(AllColumns,
        << MkRow(0, "A", "AAA001AU", "X", Rat(5, 1), Rat(1, 1), Rat(1, 1), Rat(10, 1), Rat(1, 2)),
           MkRow(1, "B", "BBB002AU", "X", Rat(5, 1), Rat(1, 1), Rat(4, 5), Rat(20, 1), Rat(3, 2)) >>)

NoValueInCategory(rows, cat, col) ==
    \A j \in DOMAIN rows : rows[j].v[COL_CAT] = cat => isna(rows[j].v[col])

\* C3: a record with a missing Beta, Sharpe ratio or Standard Deviation has a
\* missing Composite Score whatever the category means are, and so has a
\* record whose category mean of one of the three metrics is missing.
C3_CompositeNullity ==
    Analysed =>
        \A i \in DOMAIN selection_df.rows :
            LET r == selection_df.rows[i]
            IN  /\ COL_COMPOSITE \in selection_df.columns
                /\ (\E f \in avg_fields : isna(display_data.rows[i].v[f]))
                       => isna(r.v[COL_COMPOSITE])
                /\ (\E f \in avg_fields :
                       NoValueInCategory(display_data.rows, r.v[COL_CAT], f))
                       => isna(r.v[COL_COMPOSITE])

\* a record lacking only its Sharpe ratio, in a category whose three means exist
C3_Witness ==
    /\ Analysed
    /\ \E i \in DOMAIN selection_df.rows :
          LET r == selection_df.rows[i]
          IN  /\ isna(r.v[COL_SHARPE]) /\ ~isna(r.v[COL_BETA]) /\ ~isna(r.v[COL_STDEV])
              /\ \A f \in avg_fields : ~isna(AvgOf(r, f))
              /\ isna(r.v[COL_COMPOSITE])

RECURSIVE SumOver(_, _, _)
SumOver(S, rows, col) ==
    IF S = {} THEN Rat(0, 1)
    ELSE LET i == CHOOSE x \in S : TRUE
         IN  RAdd(rows[i].v[col], SumOver(S \ {i}, rows, col))

\* C4: each category mean of StdDev, Sharpe and Beta is the arithmetic mean of
\* the non-missing values of the metric among the records of the category,
\* and is missing when the category has no such value.
C4_MissingAwareMean ==
    Analysed =>
        /\ DOMAIN current_data_averages.mean = Categories(display_data.rows)
        /\ \A c \in Categories(display_data.rows), f \in avg_fields :
              LET rows == display_data.rows
                  S == {i \in DOMAIN rows : rows[i].v[COL_CAT] = c /\ ~isna(rows[i].v[f])}
                  m == current_data_averages.mean[c][f]
                  a == calculate_asset_class_averages(display_data).mean[c][f]
              IN  IF S = {} THEN isna(m) /\ isna(a)
                  ELSE /\ m = RDivInt(SumOver(S, rows, f), Cardinality(S))
                       /\ a = m

\* a category holding both a missing and a non-missing value of a metric
C4_Witness ==
    /\ Analysed
    /\ \E i, j \in DOMAIN display_data.rows : \E f \in avg_fields :
          LET rows == display_data.rows
          IN  /\ rows[i].v[COL_CAT] = rows[j].v[COL_CAT]
              /\ isna(rows[i].v[f]) /\ ~isna(rows[j].v[f])
              /\ current_data_averages.mean[rows[i].v[COL_CAT]][f] = rows[j].v[f]

-----------------------------------------------------------------------------
(* Properties of the formula filter                                        *)

Applied == last_op = "formula"

\* the table the last formula was applied to
FormulaSource == IF hub24_filtered.isNone THEN combined_data ELSE hub24_filtered

NonEmptySource == ~FormulaSource.isNone /\ ~empty(FormulaSource)

RowsOf(df) == {df.rows[i] : i \in DOMAIN df.rows}

\* C5: for a comparison of one numeric field against a constant, apply_formula
\* raises no error and no row whose compared field is missing is in the result.
C5_MissingExcluded ==
    (Applied /\ NonEmptySource /\ formula.kind = "cmp"
        /\ formula.ref \in DOMAIN rename_map /\ IsNameNode(formula.ref)) =>
        /\ formula_result.kind = "ok"
        /\ \A r \in RowsOf(formula_result.df) : ~isna(r.v[rename_map[formula.ref]])

C6_Table ==
    DataFrame(AllColumns,
        << MkRow(0, "A", "AAA001AU", "X", Rat(17, 2), Rat(3, 4), Rat(4, 5), Rat(10, 1), Rat(1, 2)),
           MkRow(1, "B", "BBB002AU", "X", Rat(9, 1), Rat(6, 5), Rat(4, 5), Rat(10, 1), Rat(1, 2)) >>)

\* the row satisfies <alias> <op> <c>, a missing cell satisfying nothing
Satisfies(r, alias, op, c) ==
    /\ ~isna(r.v[rename_map[alias]])
    /\ CompareValues(op, r.v[rename_map[alias]], Rat(c, 1))

\* C6: "expense_ratio < 1 and return > 7" on the rows fee 0.75 / return 8.5 and
\* fee 1.2 / return 9.0 succeeds and returns exactly the first row; a formula
\* joining two alias comparisons with `and` returns exactly the rows that
\* satisfy both.
C6_DocumentedExample ==
    /\ (Applied /\ FormulaSource = C6_Table
          /\ formula = And("expense_ratio", "<", 1, "return", ">", 7)) =>
          /\ formula_result.kind = "ok"
          /\ formula_result.df.rows = <<C6_Table.rows[1]>>
    /\ (Applied /\ NonEmptySource /\ formula.kind = "and"
          /\ formula.ref \in DOMAIN rename_map /\ formula.ref2 \in DOMAIN rename_map) =>
          /\ formula_result.kind = "ok"
          /\ RowsOf(formula_result.df) =
                 {r \in RowsOf(FormulaSource) :
                     /\ Satisfies(r, formula.ref, formula.op, formula.c)
                     /\ Satisfies(r, formula.ref2, formula.op2, formula.c2)}

\* C7: a comparison written with an alias and the same comparison written
\* with the literal column name both evaluate and return the same rows.
C7_AliasEquivalence ==
    (Applied /\ NonEmptySource /\ formula.kind = "cmp"
        /\ formula.ref \in DOMAIN rename_map) =>
        LET literal == apply_formula(FormulaSource,
                           Cmp(rename_map[formula.ref], formula.op, formula.c))
        IN  /\ formula_result.kind = "ok"
            /\ literal.kind = "ok"
            /\ formula_result.df = literal.df

AllowedCapabilities == {"arithmetic", "comparison", "boolean", "helper"}

\* C8: a formula either fails as an unknown identifier or as invalid syntax, or
\* its evaluation uses nothing but arithmetic, comparisons, boolean
\* connectives and the two helper functions.
C8_SandboxContainment ==
    Applied =>
        \/ formula_result.kind \in {"UnknownIdentifier", "InvalidSyntax"}
        \/ formula_result.caps \subseteq AllowedCapabilities

\* the names written in the formula, in the order evaluation reads them
WrittenNames(f) ==
    CASE f.kind \in {"cmp", "attr", "dangling"} -> <<f.ref>>
      [] f.kind \in {"and", "amp"} -> <<f.ref, f.ref2>>
      [] f.kind = "helper" -> <<f.name, f.ref>>
      [] OTHER -> <<>>

\* the text is not a Python expression
Malformed(f) ==
    \/ f.kind \in {"empty", "dangling"}
    \/ \E i \in DOMAIN WrittenNames(f) :
          WrittenNames(f)[i] \notin Identifiers \/ WrittenNames(f)[i] \in PyKeywords

\* the names evaluation looks up before anything else can fail: `and` stops
\* at the truth value of its left operand
LookedUp(f) == IF f.kind = "and" THEN <<f.ref>> ELSE WrittenNames(f)

AbsentLookups(f, df) ==
    {i \in DOMAIN LookedUp(f) : LookedUp(f)[i] \notin LocalVarKeys(df)}

FirstAbsent(f, df) ==
    LookedUp(f)[CHOOSE i \in AbsentLookups(f, df) :
                    \A j \in AbsentLookups(f, df) : i <= j]

ErrorKindsOn(source) ==
    /\ formula_result.kind \in {"ok", "UnknownIdentifier", "InvalidSyntax", "EvaluationError"}
    /\ Malformed(formula) =>
          /\ formula_result.kind = "InvalidSyntax"
          /\ formula_result.message = "Invalid formula syntax"
    /\ formula_result.kind = "UnknownIdentifier" =>
          /\ formula_result.missing_var \notin LocalVarKeys(source)
          /\ formula_result.available_vars = LocalVarKeys(source)
          /\ formula_result.message \notin
                 {"Invalid formula syntax", "Error applying formula: <original>"}
    /\ formula_result.kind = "EvaluationError" =>
          /\ formula_result.message = "Error applying formula: <original>"
          /\ formula_result.original # ""
    /\ formula_result.kind = "InvalidSyntax" => Malformed(formula)
    /\ formula_result.kind # "ok" => formula_result.df = NoneDF

ErrorKindsLookup(source) ==
    (~Malformed(formula) /\ AbsentLookups(formula, source) # {}) =>
        /\ formula_result.kind = "UnknownIdentifier"
        /\ formula_result.missing_var = FirstAbsent(formula, source)

-----------------------------------------------------------------------------
(* Properties of the platform filter                                       *)

Filtered == last_op = "filter"

\* the reference: the table itself when there is nothing to filter by or
\* nothing to filter, else the rows whose code is in the list, in order
RefFilter(t, codes) ==
    IF codes = <<>> \/ t.isNone \/ empty(t) \/ COL_APIR \notin t.columns THEN t
    ELSE DataFrame(t.columns,
             SelectSeq(t.rows, LAMBDA r : \E k \in DOMAIN codes : codes[k] = r.v[COL_APIR]))

-----------------------------------------------------------------------------
(* Properties of the platform-code extractor                               *)

Extracted == last_op = "extract"

\* the pages of the document whose text extraction succeeds
RemainingPages(pdf_file) ==
    LET Yields(page) == ~page.fails
    IN  SelectSeq(pdf_file.pages, Yields)

\* C11: when the text extraction of some page of the document fails, the
\* extractor returns the codes of the remaining pages
C11_FailingPageSkipped ==
    (Extracted /\ hub24_pdf.readable
        /\ \E i \in DOMAIN hub24_pdf.pages : hub24_pdf.pages[i].fails)
    => extract_result.codes
         = extract_apir_codes_from_pdf(Pdf(TRUE, RemainingPages(hub24_pdf))).codes

\* C12: every code the extractor returns consists of uppercase letters and
\* digits only: no space, hyphen or other whitespace is left in it
C12_CodesAreClean ==
    Extracted =>
        \A code \in extract_result.codes :
            \A i \in DOMAIN code : code[i] \in BodyChars

\* C13: the returned list has no duplicate, no code shorter than 5
\* characters and no code made of letters only; the page "Fund ABC123AU is
\* available" yields exactly ABC123AU and the page "XYZ" yields nothing
C13_PostFilter ==
    Extracted =>
        /\ Cardinality(Range(hub24_apir_codes)) = Len(hub24_apir_codes)
        /\ Range(hub24_apir_codes) = { Join(c) : c \in extract_result.codes }
        /\ \A code \in extract_result.codes : Len(code) >= 5 /\ ~isalpha(code)
        /\ hub24_pdf = Pdf(TRUE, <<TextPage(TEXT_AVAILABLE)>>)
               => hub24_apir_codes = <<"ABC123AU">>
        /\ hub24_pdf = Pdf(TRUE, <<TextPage(TEXT_LETTERS)>>)
               => hub24_apir_codes = <<>>

C13_Witness ==
    /\ Extracted
    /\ hub24_pdf = Pdf(TRUE, <<TextPage(TEXT_AVAILABLE)>>)
    /\ hub24_apir_codes = <<"ABC123AU">>

-----------------------------------------------------------------------------
(* Properties of the loader                                                *)

\* a direct call of load_and_process_csv has returned a table
Loaded == last_op = "load" /\ ~load_result.isNone

\* the text of a cell of the file and the cell of the table returned
FileText(i, col) == uploaded_file.rows[i][col]
LoadedCell(i, col) == load_result.rows[i].v[col]

IsZero(cell) == IsNum(cell) /\ cell.x.n = 0

\* C14: after a successful load no record has an Investment Management Fee
\* equal to 0, whatever the text of the zero was (0, 0.0, 0.00, 0.000, 0%, a
\* range whose mean is 0)
C14_NoZeroFee ==
    Loaded => \A i \in DOMAIN load_result.rows : ~IsZero(LoadedCell(i, COL_FEE))

\* the numbers the normalisation steps of the specification give
MinusText(t) == replace(t, UNICODE_MINUS, <<"-">>)
IsMinusNumber(t) == contains(t, UNICODE_MINUS) /\ ParseNumber(MinusText(t)).ok
SymbolText(t) == replace(replace(t, "%", <<>>), "$", <<>>)
IsSymbolNumber(t) ==
    /\ contains(t, "%") \/ contains(t, "$")
    /\ ParseNumber(SymbolText(t)).ok
    /\ ParseNumber(SymbolText(t)).x.n # 0
IsRangeText(t) ==
    /\ Len(split(t, "-")) = 2
    /\ ParseNumber(split(t, "-")[1]).ok
    /\ ParseNumber(split(t, "-")[2]).ok
RangeMean(t) ==
    RDivInt(RAdd(ParseNumber(split(t, "-")[1]).x, ParseNumber(split(t, "-")[2]).x), 2)
IsRangeNumber(t) == IsRangeText(t) /\ RangeMean(t).n # 0

HasValue(cell, x) == IsNum(cell) /\ cell.x = x

\* the cell was missing before the backfill: it is still missing, or it holds
\* the median of its column
TreatedAsMissing(i, col) ==
    IF col \in key_3year_metrics THEN IsNan(LoadedCell(i, col))
    ELSE \/ IsNan(LoadedCell(i, col))
         \/ HasValue(LoadedCell(i, col), median(Column(load_result, col)))

\* C15 as stated: in every numeric column a Unicode minus is replaced by an
\* ASCII minus, a value with a currency or percent symbol is normalised to
\* its number and a low-high range is replaced by the mean of low and high
C15_EveryColumn ==
    Loaded =>
        \A col \in NUMERIC_COLUMNS : \A i \in DOMAIN load_result.rows :
            LET t == FileText(i, col)
            IN  /\ IsMinusNumber(t) =>
                       HasValue(LoadedCell(i, col), ParseNumber(MinusText(t)).x)
                /\ IsSymbolNumber(t) =>
                       HasValue(LoadedCell(i, col), ParseNumber(SymbolText(t)).x)
                /\ IsRangeNumber(t) => HasValue(LoadedCell(i, col), RangeMean(t))

\* C15, amended: in every numeric column a Unicode minus is replaced by an
\* ASCII minus; a currency or percent symbol is stripped and a low-high
\* range is replaced by its mean in the Investment Management Fee column
\* only, and in the other four numeric columns such a value is treated as
\* missing
C15_FeeColumnOnly ==
    Loaded =>
        \A col \in NUMERIC_COLUMNS : \A i \in DOMAIN load_result.rows :
            LET t == FileText(i, col)
            IN  /\ IsMinusNumber(t) =>
                       HasValue(LoadedCell(i, col), ParseNumber(MinusText(t)).x)
                /\ IsSymbolNumber(t) =>
                       IF col = COL_FEE
                       THEN HasValue(LoadedCell(i, col), ParseNumber(SymbolText(t)).x)
                       ELSE TreatedAsMissing(i, col)
                /\ IsRangeNumber(t) =>
                       IF col = COL_FEE
                       THEN HasValue(LoadedCell(i, col), RangeMean(t))
                       ELSE TreatedAsMissing(i, col)

C15_Witness ==
    /\ Loaded
    /\ Len(load_result.rows) = 2
    /\ IsSymbolNumber(FileText(1, COL_RETURN))
    /\ IsSymbolNumber(FileText(1, COL_FEE))
    /\ IsSymbolNumber(FileText(1, COL_BETA))
    /\ HasValue(LoadedCell(1, COL_FEE), Rat(1, 2))
    /\ HasValue(LoadedCell(1, COL_RETURN), Rat(9, 1))
    /\ HasValue(LoadedCell(2, COL_RETURN), Rat(9, 1))
    /\ IsNan(LoadedCell(1, COL_BETA))

IsBlank(t) == strip(t) = <<>>

\* the columns of the files that hold texts
STRING_COLUMNS == {COL_NAME, COL_APIR, COL_CAT, COL_STYLEBOX}

\* C16: after a successful load a blank cell of a numeric column other than
\* the three scoring metrics holds the median of its column, a blank cell of
\* 3 Year Beta, 3 Year Standard Deviation or 3 Year Sharpe Ratio is still
\* missing, and a blank cell of a string column holds the text "Unknown"
C16_Backfill ==
    Loaded =>
        \A i \in DOMAIN load_result.rows :
            /\ \A col \in NUMERIC_COLUMNS \ key_3year_metrics :
                   (IsBlank(FileText(i, col)) /\ ~isna(median(Column(load_result, col))))
                       => HasValue(LoadedCell(i, col), median(Column(load_result, col)))
            /\ \A col \in key_3year_metrics :
                   IsBlank(FileText(i, col)) => IsNan(LoadedCell(i, col))
            /\ \A col \in STRING_COLUMNS :
                   IsBlank(FileText(i, col)) => LoadedCell(i, col) = StrCell(UNKNOWN_TEXT)

\* an operation has loaded a table into the session
SessionLoaded ==
    \/ last_op = "import" /\ dataframes # <<>>
    \/ last_op = "upload" /\ read_csv(uploaded_file, 0).error = "none"
    \/ last_op = "direct"
    \/ last_op = "sample"

\* C17: after an operation that loads a dataset into the session (CSV import,
\* simplified upload, direct load, sample data) every record of the active
\* dataset has a Morningstar Category that is not null
C17_CategoryNonNull ==
    (SessionLoaded /\ ~combined_data.isNone /\ COL_CAT \in combined_data.columns) =>
        \A i \in DOMAIN combined_data.rows : IsStr(combined_data.rows[i].v[COL_CAT])

SameNumber(a, b) ==
    \/ IsNan(a) /\ IsNan(b)
    \/ IsNum(a) /\ IsNum(b) /\ a.x = b.x

\* C18: loading the table that load_and_process_csv returned gives the same
\* values again in every numeric column, the missing cells and the fee cells
\* included
C18_FixedPoint ==
    [][ReloadOutput =>
          /\ ~load_result'.isNone
          /\ Len(load_result'.rows) = Len(load_result.rows)
          /\ \A col \in NUMERIC_COLUMNS : \A i \in DOMAIN load_result.rows :
                 SameNumber(load_result.rows[i].v[col], load_result'.rows[i].v[col])]_vars

-----------------------------------------------------------------------------
(* Properties of the validation                                            *)

Validated == last_op = "validate"

\* a text that is neither blank nor a number
IsNonNumeric(t) == t \notin NA_VALUES /\ ~IsBlank(t) /\ ~ParseNumber(MinusText(t)).ok

\* the rows of the file whose cell of the column is no number, in row order
OffendingRows(file, col) ==
    LET Offends(i) == IsNonNumeric(file.rows[i][col])
        RECURSIVE From(_)
        From(i) == IF i > Len(file.rows) THEN <<>>
                   ELSE (IF Offends(i) THEN <<i>> ELSE <<>>) \o From(i + 1)
    IN  From(1)

\* the outcome the order of the checks prescribes
ExpectedValidation(file) ==
    LET Absent(col) == col \notin file.columns
        Offending(col) == OffendingRows(file, col) # <<>>
        failing == SelectSeq(NUMERIC_COLUMNS_LIST, Offending)
    IN  IF file.kind = "empty" THEN Validation(FALSE, MSG_EMPTY, "", <<>>, 0)
        ELSE IF file.kind = "malformed" THEN Validation(FALSE, MSG_PARSER, "", <<>>, 0)
        ELSE IF SelectSeq(REQUIRED_COLUMNS, Absent) # <<>>
        THEN Validation(FALSE, MSG_MISSING, "", SelectSeq(REQUIRED_COLUMNS, Absent), 0)
        ELSE IF failing # <<>>
        THEN LET bad == OffendingRows(file, failing[1])
                 n   == IF Len(bad) > 3 THEN 3 ELSE Len(bad)
             IN  Validation(FALSE, MSG_NON_NUMERIC, failing[1],
                            [j \in 1..n |-> <<bad[j], Join(file.rows[bad[j]][failing[1]])>>],
                            Len(bad) - n)
        ELSE Validation(TRUE, "", "", <<>>, 0)

\* C19: validate_csv decides by the first failing check: empty or unparseable
\* input, then missing required columns (all of them listed), then a value
\* of a numeric column that is no number (the first 3 row/value pairs and the
\* count of the others listed); a table passing all checks gives (True, "")
C19_FirstFailingCheck ==
    Validated => validation = ExpectedValidation(uploaded_file)

-----------------------------------------------------------------------------
(* Properties of the preset strategies                                     *)

\* the table the formula page takes as its source
StrategySource == IF hub24_filtered.isNone THEN combined_data ELSE hub24_filtered

\* C20: every preset strategy applied to a non-empty active table completes
\* without an error and stores its result table, an empty one when no row
\* satisfies the recipe, as the filtered selection
C20_PresetsComplete ==
    (last_op \in STRATEGIES /\ ~empty(StrategySource)) =>
        /\ formula_result.kind = "ok"
        /\ filtered_selection = formula_result.df

-----------------------------------------------------------------------------
(* Session workflow: the handlers that replace the combined dataset, the   *)
(* platform codes and the derived tables                                   *)

\* extract_apir_codes_from_pdf of app.py: every match of apir_pattern is a
\* code; a page without text makes re.findall raise
app_extract_apir_codes_from_pdf(pdf_file) ==
    IF ~pdf_file.readable \/ \E i \in DOMAIN pdf_file.pages : pdf_file.pages[i].fails
    THEN ExtractResult({}, TRUE)
    ELSE ExtractResult(
             UNION { Range(findall(apir_pattern, pdf_file.pages[i].text)) :
                       i \in DOMAIN pdf_file.pages }, FALSE)

\* the file uploader of the platform page is given a document
UploadPdf(doc) ==
    /\ hub24_pdf' = doc
    /\ last_op' = "pdf"
    /\ UNCHANGED <<combined_data, hub24_apir_codes, hub24_filtered, filtered_selection,
                   formula, formula_result, filter_result, current_data_averages,
                   selection_df, extract_result>>
    /\ UNCHANGED <<loaderVars, sliders, portfolioVars, storageVars, heapVars>>

\* Extract APIR Codes in the sidebar of app.py
AppExtractApirCodes ==
    /\ hub24_pdf # NoPdf
    /\ \E res \in {app_extract_apir_codes_from_pdf(hub24_pdf)} :
           /\ extract_result' = res
           /\ hub24_apir_codes' \in ListsOf({ Join(c) : c \in res.codes })
    /\ last_op' = "app_extract"
    /\ UNCHANGED <<combined_data, hub24_filtered, filtered_selection, formula,
                   formula_result, filter_result, current_data_averages,
                   selection_df, hub24_pdf>>
    /\ UNCHANGED <<loaderVars, sliders, portfolioVars, storageVars, heapVars>>

\* the combined dataset and the category averages a load stores for the
\* table df, with or without the reset of the derived tables
StoreLoaded(df, reset_derived) ==
    /\ combined_data' = df
    /\ asset_class_averages' = calculate_asset_class_averages(df)
    /\ IF reset_derived
       THEN hub24_filtered' = NoneDF /\ filtered_selection' = NoneDF
       ELSE UNCHANGED <<hub24_filtered, filtered_selection>>

\* what a load leaves alone
LoadFrame ==
    UNCHANGED <<hub24_apir_codes, formula, formula_result, filter_result,
                current_data_averages, selection_df, uploaded_file, validation,
                load_result, extractVars, sliders, portfolioVars, storageVars, heapVars>>

\* Process Files on the import page; df is the table the files gave, NoneDF
\* when every file failed validation or loading
ImportProcessFiles(df) ==
    /\ dataframes' = IF df.isNone THEN <<>> ELSE <<df>>
    /\ IF ~df.isNone THEN StoreLoaded(df, TRUE)
       ELSE UNCHANGED <<combined_data, asset_class_averages, hub24_filtered,
                        filtered_selection>>
    /\ last_op' = "1_Data_Import"
    /\ LoadFrame

\* Process Files in the sidebar of app.py
AppProcessFiles(df) ==
    /\ dataframes' = IF df.isNone THEN <<>> ELSE <<df>>
    /\ IF ~df.isNone THEN StoreLoaded(df, FALSE)
       ELSE UNCHANGED <<combined_data, asset_class_averages, hub24_filtered,
                        filtered_selection>>
    /\ last_op' = "app"
    /\ LoadFrame

\* Load Data From Assets; the list is emptied before the file is validated
LoadDataFromAssets(df) ==
    /\ dataframes' = IF df.isNone THEN <<>> ELSE <<df>>
    /\ IF ~df.isNone THEN StoreLoaded(df, TRUE)
       ELSE UNCHANGED <<combined_data, asset_class_averages, hub24_filtered,
                        filtered_selection>>
    /\ last_op' = "2_Direct_Load"
    /\ LoadFrame

\* Process Data on the simplified upload page, for a file read as df
UploadProcessData(df) ==
    /\ ~df.isNone
    /\ dataframes' = <<df>>
    /\ StoreLoaded(df, FALSE)
    /\ last_op' = "0_Upload_File"
    /\ LoadFrame

\* Load Example Data, for an example file read as df
DirectLoadExampleData(df) ==
    /\ ~df.isNone
    /\ dataframes' = <<df>>
    /\ StoreLoaded(df, FALSE)
    /\ last_op' = "7_Direct_Load"
    /\ LoadFrame

\* the handlers that load a dataset, by the value they leave in last_op
LOAD_OPS == {"1_Data_Import", "app", "2_Direct_Load", "0_Upload_File", "7_Direct_Load"}

-----------------------------------------------------------------------------
(* Advanced Filters (pages/4_Formula_Filtering.py)                         *)

AdvancedError(original) ==
    Result("AdvancedError", NoneDF, "", {}, "Error applying advanced filters: <original>",
           original, {})

\* the body of the try block: the table stored, or the exception shown.
\* mask starts as a Series of True with the labels 0..n-1; mask & condition
\* aligns the labels of the two and is False at a label one of them lacks
AdvancedFiltersResult(source_data, s, empty_raises) ==
    LET Selected(enhanced_data) ==
            LET Col(c) == ColumnValues(enhanced_data.rows, c)
                by_return  == RLt(Rat(0, 1), s.min_return)
                by_expense == RLt(s.max_expense, Rat(3, 1))
                by_risk    == RLt(s.max_risk, Rat(30, 1))
                by_sharpe  == RLt(Rat(0, 1), s.min_sharpe)
                by_return_percentile  == s.return_percentile > 0
                by_expense_percentile == s.expense_percentile < 100
                needed ==
                    (IF by_return \/ by_return_percentile THEN {COL_RETURN} ELSE {}) \cup
                    (IF by_expense \/ by_expense_percentile THEN {COL_FEE} ELSE {}) \cup
                    (IF by_risk THEN {COL_STDEV} ELSE {}) \cup
                    (IF by_sharpe THEN {COL_SHARPE} ELSE {})
                Meets(row, return_threshold, expense_threshold) ==
                    /\ by_return  => RLe(s.min_return, row.v[COL_RETURN])
                    /\ by_expense => RLe(row.v[COL_FEE], s.max_expense)
                    /\ by_risk    => RLe(row.v[COL_STDEV], s.max_risk)
                    /\ by_sharpe  => RLe(s.min_sharpe, row.v[COL_SHARPE])
                    /\ by_return_percentile  => RLe(return_threshold, row.v[COL_RETURN])
                    /\ by_expense_percentile => RLe(row.v[COL_FEE], expense_threshold)
                Masked(rt, et) ==
                    IF rt.exc \/ et.exc THEN AdvancedError(INDEX_ERROR)
                    ELSE Ok(ApplyMask(enhanced_data,
                                [i \in DOMAIN enhanced_data.rows |->
                                    /\ enhanced_data.rows[i].index \in
                                           0 .. (Len(enhanced_data.rows) - 1)
                                    /\ Meets(enhanced_data.rows[i], rt.x, et.x)]), {})
            IN  IF enhanced_data.isNone THEN AdvancedError("object of type 'NoneType' has no len()")
                ELSE IF ~(needed \subseteq enhanced_data.columns) THEN AdvancedError("KeyError")
                ELSE IF needed = {}
                THEN IF HasDefaultIndex(enhanced_data) THEN Ok(enhanced_data, {})
                     ELSE AdvancedError("Unalignable boolean Series provided as indexer")
                ELSE Masked(IF by_return_percentile
                            THEN Threshold(Col(COL_RETURN), 100 - s.return_percentile, empty_raises)
                            ELSE [exc |-> FALSE, x |-> NaN],
                            IF by_expense_percentile
                            THEN Threshold(Col(COL_FEE), s.expense_percentile, empty_raises)
                            ELSE [exc |-> FALSE, x |-> NaN])
    IN  Selected(calculate_performance_metrics(source_data))

\* Apply Advanced Filters with the sliders set to s: the source is the
\* platform-filtered table when there is one; an exception is shown and
\* leaves the stored selection as it was
ApplyAdvancedFilters(s, empty_raises) ==
    /\ ~combined_data.isNone /\ ~empty(combined_data)
    /\ sliders' = s
    /\ \E source_data \in {IF hub24_filtered.isNone THEN combined_data ELSE hub24_filtered} :
       \E res \in {AdvancedFiltersResult(source_data, s, empty_raises)} :
           /\ formula_result' = res
           /\ filtered_selection' = IF res.kind = "ok" THEN res.df ELSE filtered_selection
    /\ last_op' = "advanced"
    /\ UNCHANGED <<combined_data, hub24_apir_codes, hub24_filtered, formula,
                   filter_result, current_data_averages, selection_df>>
    /\ UNCHANGED <<extractVars, loaderVars, portfolioVars, storageVars, heapVars>>

-----------------------------------------------------------------------------
(* Sessions: loads, platform filter, formula filter and analysis view      *)

\* <<return, fee, beta>> of a row of a loaded table; every fund is of
\* category X with StdDev 10 and Sharpe 0.5
WorkflowRowValues ==
    { <<Rat(17, 2), Rat(3, 4), Rat(4, 5)>>,
      <<Rat(9, 1), Rat(6, 5), Rat(6, 5)>> }

\* the values of the first row and of the rows after the second
WorkflowFirstValues == { <<Rat(17, 2), Rat(3, 4), Rat(4, 5)>> }
WorkflowCompanionValues == { <<Rat(9, 1), Rat(6, 5), Rat(6, 5)>> }

WorkflowRowSeqs(n) ==
    { [i \in 1..n |-> MkRow(i - 1, FundName(i), FundApir(i), "X",
                            r[i][1], r[i][2], r[i][3], Rat(10, 1), Rat(1, 2))] :
        r \in { q \in [1..n -> WorkflowRowValues] :
                  /\ q[1] \in WorkflowFirstValues
                  /\ \A i \in 3..n : q[i] \in WorkflowCompanionValues } }

WorkflowTables ==
    { DataFrame(AllColumns, rows) :
        rows \in UNION { WorkflowRowSeqs(n) : n \in 1..MaxWorkflowRows } }

\* documents listing both funds and the second fund only
WorkflowDocuments ==
    { Pdf(TRUE, <<TextPage(TEXT_LISTED)>>),
      Pdf(TRUE, <<TextPage(TEXT_HYPHEN)>>) }

WorkflowFormulas == { Cmp("beta", "<", 1) }

\* a session as the pages initialise it: nothing loaded, nothing derived
InitWorkflow ==
    /\ combined_data = NoneDF
    /\ hub24_apir_codes = <<>>
    /\ hub24_filtered = NoneDF
    /\ filtered_selection = NoneDF
    /\ formula = EmptyFormula
    /\ formula_result = NoResult
    /\ filter_result = NoFilterResult
    /\ current_data_averages = NoAverages
    /\ selection_df = NoneDF
    /\ hub24_pdf \in WorkflowDocuments
    /\ extract_result = NoExtractResult
    /\ uploaded_file = NoFile
    /\ validation = NoValidation
    /\ load_result = NoneDF
    /\ dataframes = <<>>
    /\ asset_class_averages = NoAverages
    /\ last_op = "init"
    /\ InitPages

NextWorkflow ==
    \/ \E df \in WorkflowTables \cup {NoneDF} : ImportProcessFiles(df)
    \/ \E df \in WorkflowTables : UploadProcessData(df)
    \/ ExtractApirCodes
    \/ FilterByHub24Options
    \/ \E f \in WorkflowFormulas : ApplyCustomFormula(f)
    \/ RenderAnalysis

SpecWorkflow == InitWorkflow /\ [][NextWorkflow]_vars

\* a session with a stored code list naming the second fund: the five load
\* handlers, the platform filter and the formula filter
InitLoads ==
    /\ combined_data = NoneDF
    /\ hub24_apir_codes = <<"BBB002AU">>
    /\ hub24_filtered = NoneDF
    /\ filtered_selection = NoneDF
    /\ formula = EmptyFormula
    /\ formula_result = NoResult
    /\ filter_result = NoFilterResult
    /\ current_data_averages = NoAverages
    /\ selection_df = NoneDF
    /\ hub24_pdf = NoPdf
    /\ extract_result = NoExtractResult
    /\ uploaded_file = NoFile
    /\ validation = NoValidation
    /\ load_result = NoneDF
    /\ dataframes = <<>>
    /\ asset_class_averages = NoAverages
    /\ last_op = "init"
    /\ InitPages

NextLoads ==
    \/ \E df \in WorkflowTables \cup {NoneDF} : ImportProcessFiles(df)
    \/ \E df \in WorkflowTables \cup {NoneDF} : AppProcessFiles(df)
    \/ \E df \in WorkflowTables \cup {NoneDF} : LoadDataFromAssets(df)
    \/ \E df \in WorkflowTables : UploadProcessData(df)
    \/ \E df \in WorkflowTables : DirectLoadExampleData(df)
    \/ FilterByHub24Options
    \/ ApplyCustomFormula(Cmp("beta", "<", 1))

SpecLoads == InitLoads /\ [][NextLoads]_vars

\* the platform page and the sidebar of app.py on a loaded table
InitPlatform ==
    /\ combined_data = ExtractTable
    /\ hub24_apir_codes = <<>>
    /\ hub24_filtered = NoneDF
    /\ filtered_selection = NoneDF
    /\ formula = EmptyFormula
    /\ formula_result = NoResult
    /\ filter_result = NoFilterResult
    /\ current_data_averages = NoAverages
    /\ selection_df = NoneDF
    /\ hub24_pdf = NoPdf
    /\ extract_result = NoExtractResult
    /\ uploaded_file = NoFile
    /\ validation = NoValidation
    /\ load_result = NoneDF
    /\ dataframes = <<combined_data>>
    /\ asset_class_averages = calculate_asset_class_averages(combined_data)
    /\ last_op = "init"
    /\ InitPages

\* documents listing both funds, the second fund, the first fund and a
\* word, no code at all, and a file that is no document
PlatformDocuments ==
    WorkflowDocuments \cup
    { Pdf(TRUE, <<TextPage(TEXT_AVAILABLE), TextPage(TEXT_SPACED)>>),
      Pdf(TRUE, <<TextPage(TEXT_WORDS)>>),
      Pdf(FALSE, <<>>) }

NextPlatform ==
    \/ \E doc \in PlatformDocuments : UploadPdf(doc)
    \/ ExtractApirCodes
    \/ AppExtractApirCodes
    \/ FilterByHub24Options

SpecPlatform == InitPlatform /\ [][NextPlatform]_vars

\* slider settings: the defaults, one threshold each, a percentile each
AdvancedSliders ==
    { DEFAULT_SLIDERS,
      Sliders(Rat(9, 1), Rat(3, 1), Rat(30, 1), Rat(0, 1), 0, 100),
      Sliders(Rat(0, 1), Rat(1, 1), Rat(30, 1), Rat(0, 1), 0, 100),
      Sliders(Rat(0, 1), Rat(3, 1), Rat(10, 1), Rat(0, 1), 0, 100),
      Sliders(Rat(0, 1), Rat(3, 1), Rat(30, 1), Rat(1, 1), 0, 100),
      Sliders(Rat(0, 1), Rat(3, 1), Rat(30, 1), Rat(0, 1), 50, 100),
      Sliders(Rat(0, 1), Rat(3, 1), Rat(30, 1), Rat(0, 1), 0, 50),
      Sliders(Rat(17, 2), Rat(6, 5), Rat(30, 1), Rat(0, 1), 0, 100) }

\* <<return, fee, StdDev, Sharpe>> of a row
AdvancedRowValues ==
    { <<Rat(17, 2), Rat(3, 4), Rat(8, 1), Rat(6, 5)>>,
      <<Rat(9, 1), Rat(6, 5), Rat(16, 1), Rat(3, 5)>> }

AdvancedCompanionValues == { <<Rat(9, 1), Rat(6, 5), Rat(16, 1), Rat(3, 5)>> }

AdvancedRowSeqs(n) ==
    { [i \in 1..n |-> MkRow(i - 1, FundName(i), FundApir(i), "X",
                            r[i][1], r[i][2], Rat(1, 1), r[i][3], r[i][4])] :
        r \in { q \in [1..n -> AdvancedRowValues] :
                  \A i \in 3..n : q[i] \in AdvancedCompanionValues } }

AdvancedTables ==
    { DataFrame(AllColumns, rows) :
        rows \in UNION { AdvancedRowSeqs(n) : n \in 1..MaxAdvancedRows } }

\* a loaded table and a stored code list naming its first or its second fund
InitAdvanced ==
    /\ combined_data \in AdvancedTables
    /\ hub24_apir_codes \in { <<"AAA001AU">>, <<"BBB002AU">> }
    /\ hub24_filtered = NoneDF
    /\ filtered_selection = NoneDF
    /\ formula = EmptyFormula
    /\ formula_result = NoResult
    /\ filter_result = NoFilterResult
    /\ current_data_averages = NoAverages
    /\ selection_df = NoneDF
    /\ hub24_pdf = NoPdf
    /\ extract_result = NoExtractResult
    /\ uploaded_file = NoFile
    /\ validation = NoValidation
    /\ load_result = NoneDF
    /\ dataframes = <<combined_data>>
    /\ asset_class_averages = calculate_asset_class_averages(combined_data)
    /\ last_op = "init"
    /\ InitPages

NextAdvanced ==
    \/ \E s \in AdvancedSliders : \E empty_raises \in BOOLEAN :
           ApplyAdvancedFilters(s, empty_raises)
    \/ FilterByHub24Options

SpecAdvanced == InitAdvanced /\ [][NextAdvanced]_vars

-----------------------------------------------------------------------------
(* Properties of a session                                                 *)

\* the rows the analysis view displays: the formula-filtered selection if it
\* has rows, else the platform-filtered table if it has rows, else the
\* combined table
DisplayedRows ==
    IF ~filtered_selection.isNone /\ filtered_selection.rows # <<>>
        THEN filtered_selection.rows
    ELSE IF ~hub24_filtered.isNone /\ hub24_filtered.rows # <<>>
        THEN hub24_filtered.rows
    ELSE combined_data.rows

\* C21: after any sequence of loads, platform filters and formula filters,
\* the analysis view shows the displayed rows, and the differentials and the
\* Composite Score of each are taken against the means of its category over
\* the displayed rows, never against the averages stored at load time
C21_MeansOfDisplayedRows ==
    last_op = "analysis" =>
        /\ Len(selection_df.rows) = Len(DisplayedRows)
        /\ \A i \in DOMAIN selection_df.rows :
               LET row == selection_df.rows[i]
                   Mean(col) == GroupMean(DisplayedRows, row.v[COL_CAT], col)
                   beta_diff   == RSub(Mean(COL_BETA), row.v[COL_BETA])
                   sharpe_diff == RSub(row.v[COL_SHARPE], Mean(COL_SHARPE))
                   stdev_diff  == RSub(row.v[COL_STDEV], Mean(COL_STDEV))
               IN  /\ row.index = DisplayedRows[i].index
                   /\ row.v[COL_APIR] = DisplayedRows[i].v[COL_APIR]
                   /\ row.v[COL_BETA_DIFF] = beta_diff
                   /\ row.v[COL_SHARPE_DIFF] = sharpe_diff
                   /\ row.v[COL_STDEV_DIFF] = stdev_diff
                   /\ row.v[COL_COMPOSITE] =
                          RAdd(RAdd(RDivInt(stdev_diff, 10), sharpe_diff), beta_diff)
                   /\ current_data_averages.mean[row.v[COL_CAT]][COL_BETA] = Mean(COL_BETA)

\* the analysis view has shown a filtered table whose category mean of beta
\* is not the mean stored at load time
C21_Witness ==
    /\ last_op = "analysis"
    /\ DisplayedRows # combined_data.rows
    /\ ~asset_class_averages.isNone
    /\ \E c \in DOMAIN current_data_averages.mean :
           /\ c \in DOMAIN asset_class_averages.mean
           /\ current_data_averages.mean[c][COL_BETA] # asset_class_averages.mean[c][COL_BETA]

\* C23: when a platform-filtered table and a formula-filtered selection are
\* both active, every row of the selection is a row of the platform-filtered
\* table
C23_SelectionWithinPlatformFilter ==
    (~hub24_filtered.isNone /\ ~filtered_selection.isNone) =>
        \A i \in DOMAIN filtered_selection.rows :
            \E j \in DOMAIN hub24_filtered.rows :
                /\ hub24_filtered.rows[j].index = filtered_selection.rows[i].index
                /\ hub24_filtered.rows[j].v[COL_APIR] = filtered_selection.rows[i].v[COL_APIR]

\* C24: a load that replaces the combined dataset leaves no platform-filtered
\* table and no formula-filtered selection
C24_LoadResetsDerived ==
    (last_op \in LOAD_OPS /\ dataframes # <<>>) =>
        (hub24_filtered.isNone /\ filtered_selection.isNone)

\* C25: the stored codes are those of the most recent extraction, and an
\* active platform-filtered table is the combined table filtered by the
\* stored codes
C25_FilteredByStoredCodes ==
    /\ extract_result.kind # "none" =>
           Range(hub24_apir_codes) = { Join(c) : c \in extract_result.codes }
    /\ ~hub24_filtered.isNone =>
           hub24_filtered = filter_investments_by_apir(combined_data, hub24_apir_codes).df

\* C26: the source table of the formula page is the table the analysis view
\* shows as current when no formula selection is active
C26_SameSource ==
    (~combined_data.isNone /\ ~empty(combined_data)
        /\ (filtered_selection.isNone \/ empty(filtered_selection))) =>
        StrategySource = display_data

\* the rows of the source that meet every enabled threshold of the sliders
MeetingRows(source_data, s) ==
    LET Present(col) == SelectSeq(ColumnValues(source_data.rows, col), NotNa)
        Meets(row) ==
            /\ RLt(Rat(0, 1), s.min_return)  => RLe(s.min_return, row.v[COL_RETURN])
            /\ RLt(s.max_expense, Rat(3, 1)) => RLe(row.v[COL_FEE], s.max_expense)
            /\ RLt(s.max_risk, Rat(30, 1))   => RLe(row.v[COL_STDEV], s.max_risk)
            /\ RLt(Rat(0, 1), s.min_sharpe)  => RLe(s.min_sharpe, row.v[COL_SHARPE])
            /\ s.return_percentile > 0 =>
                   RLe(percentile(Present(COL_RETURN), 100 - s.return_percentile),
                       row.v[COL_RETURN])
            /\ s.expense_percentile < 100 =>
                   RLe(row.v[COL_FEE],
                       percentile(Present(COL_FEE), s.expense_percentile))
    IN  SelectSeq(source_data.rows, Meets)

\* C27: Advanced Filters stores exactly the rows of the source that meet
\* every enabled threshold, all rows with the sliders at their defaults,
\* also when the source is a platform-filtered table
C27_ExactlyMeetingRows ==
    (last_op = "advanced" /\ ~empty(StrategySource)) =>
        /\ formula_result.kind = "ok"
        /\ filtered_selection = formula_result.df
        /\ [i \in DOMAIN filtered_selection.rows |-> filtered_selection.rows[i].index]
               = [i \in DOMAIN MeetingRows(StrategySource, sliders) |->
                     MeetingRows(StrategySource, sliders)[i].index]

\* C28: the list of loaded dataframes and the combined dataset describe the
\* same data, also after a Process Files run in which every file failed
C28_ListMatchesCombined ==
    dataframes = IF combined_data.isNone THEN <<>> ELSE <<combined_data>>

-----------------------------------------------------------------------------
(* Tables as objects: what the library functions do to the table they are  *)
(* given (utils/formula_engine.py, utils/hub24_filter.py)                  *)
(*                                                                         *)
(* A heap is a sequence of tables and a table object is its position.  An  *)
(* operation that makes a table gives [heap, id]: the heap with the new    *)
(* object and the position of it.                                          *)

\* a table that no one refers to yet: df[mask], pd.DataFrame(), sort_values
New(heap, df) == [heap |-> Append(heap, df), id |-> Len(heap) + 1]

\* variant: the same object under another name
copy_sameObject(heap, id) == [heap |-> heap, id |-> id]

\* df.copy()
copy(heap, id) == New(heap, heap[id])

\* what a call gives back: the heap after it and the object returned, 0 when
\* the call raised
Returned(heap, ret) == [heap |-> heap, ret |-> ret]

\* apply_formula: the columns are read through copies, the result is
\* pd.DataFrame() or df[mask].copy()
apply_formula_call(heap, id, f) ==
    LET Finish(res) ==
            IF res.kind # "ok" THEN Returned(heap, 0)
            ELSE IF heap[id].isNone \/ empty(heap[id])
            THEN LET made == New(heap, res.df) IN Returned(made.heap, made.id)
            ELSE LET Copied(masked) == copy(masked.heap, masked.id)
                     filtered_df == Copied(New(heap, res.df))
                 IN  Returned(filtered_df.heap, filtered_df.id)
    IN  Finish(apply_formula(heap[id], f))

\* calculate_performance_metrics: result = df.copy(), the columns are
\* assigned to result; no table and an empty table are returned as given
calculate_performance_metrics_call(heap, id) ==
    IF heap[id].isNone \/ empty(heap[id]) THEN Returned(heap, id)
    ELSE LET Assigned(result) ==
                 Returned([result.heap EXCEPT
                              ![result.id] = calculate_performance_metrics(@)],
                          result.id)
         IN  Assigned(copy(heap, id))

\* Series.rank(ascending=ascending): the average rank among the values
\* present, missing where the value is missing
rank(values, ascending) ==
    [i \in DOMAIN values |->
        IF isna(values[i]) THEN NaN
        ELSE LET Before(j) == IF ascending THEN RLt(values[j], values[i])
                              ELSE RLt(values[i], values[j])
                 before == Cardinality({j \in DOMAIN values : Before(j)})
                 equal  == Cardinality({j \in DOMAIN values : REq(values[j], values[i])})
             IN  Rat(2 * before + equal + 1, 2)] \o <<>>

COL_RANK == "rank"

\* sort_values('rank'): rows in the order of their rank, missing ranks last,
\* rows of equal rank in table order
RECURSIVE InsertByRank(_, _)
InsertByRank(row, sorted) ==
    IF sorted = <<>> THEN <<row>>
    ELSE IF RLt(row.v[COL_RANK], Head(sorted).v[COL_RANK])
            \/ (~isna(row.v[COL_RANK]) /\ isna(Head(sorted).v[COL_RANK]))
        THEN <<row>> \o sorted
    ELSE <<Head(sorted)>> \o InsertByRank(row, Tail(sorted))

RECURSIVE SortByRank(_)
SortByRank(rows) ==
    IF rows = <<>> THEN <<>>
    ELSE InsertByRank(rows[Len(rows)], SortByRank(SubSeq(rows, 1, Len(rows) - 1)))

\* rank_investments: result = df.copy(), result['rank'] is assigned, the
\* sorted table is returned; without the metric the table is returned as given
rank_investments_call(heap, id, metric, ascending) ==
    IF heap[id].isNone \/ empty(heap[id]) \/ metric \notin heap[id].columns
    THEN Returned(heap, id)
    ELSE LET Sorted(h, r) ==
                 LET made == New(h, DataFrame(h[r].columns, SortByRank(h[r].rows)))
                 IN  Returned(made.heap, made.id)
             Ranked(result) ==
                 Sorted([result.heap EXCEPT
                            ![result.id] =
                                AddColumn(@, COL_RANK,
                                          rank(ColumnValues(@.rows, metric), ascending))],
                        result.id)
         IN  Ranked(copy(heap, id))

\* filter_investments_by_apir: df[df['APIR Code'].isin(apir_codes)], or the
\* table as given
filter_investments_by_apir_call(heap, id, apir_codes) ==
    IF heap[id].isNone \/ empty(heap[id]) \/ apir_codes = <<>>
          \/ COL_APIR \notin heap[id].columns
    THEN Returned(heap, id)
    ELSE LET made == New(heap, filter_investments_by_apir(heap[id], apir_codes).df)
         IN  Returned(made.heap, made.id)

Call(fn, arg, ret, before) ==
    [fn |-> fn, arg |-> arg, ret |-> ret, before |-> before, modified |-> FALSE]

\* what a call leaves alone
CallFrame ==
    /\ UNCHANGED <<combined_data, hub24_apir_codes, hub24_filtered, filtered_selection,
                   formula, formula_result, filter_result, current_data_averages,
                   selection_df>>
    /\ UNCHANGED <<extractVars, loaderVars, sliders, portfolioVars, storageVars>>

\* the table of the caller is object 1; the objects of earlier calls are gone
ApplyFormulaCall(f) ==
    /\ \E res \in {apply_formula_call(<<objects[1]>>, 1, f)} :
           /\ objects' = res.heap
           /\ call' = Call("apply_formula", 1, res.ret, objects[1])
    /\ last_op' = "apply_formula"
    /\ CallFrame

PerformanceMetricsCall ==
    /\ \E res \in {calculate_performance_metrics_call(<<objects[1]>>, 1)} :
           /\ objects' = res.heap
           /\ call' = Call("calculate_performance_metrics", 1, res.ret, objects[1])
    /\ last_op' = "calculate_performance_metrics"
    /\ CallFrame

RankInvestmentsCall(metric, ascending) ==
    /\ \E res \in {rank_investments_call(<<objects[1]>>, 1, metric, ascending)} :
           /\ objects' = res.heap
           /\ call' = Call("rank_investments", 1, res.ret, objects[1])
    /\ last_op' = "rank_investments"
    /\ CallFrame

FilterByApirCall(apir_codes) ==
    /\ \E res \in {filter_investments_by_apir_call(<<objects[1]>>, 1, apir_codes)} :
           /\ objects' = res.heap
           /\ call' = Call("filter_investments_by_apir", 1, res.ret, objects[1])
    /\ last_op' = "filter_investments_by_apir"
    /\ CallFrame

COL_SELECT == "Select"

\* the caller changes the returned table in place: a column is inserted and
\* the category of every row overwritten
ModifyReturned ==
    /\ call.ret # 0
    /\ ~call.modified
    /\ ~objects[call.ret].isNone
    /\ objects' = [objects EXCEPT
                      ![call.ret] =
                          DataFrame(@.columns \cup {COL_SELECT, COL_CAT},
                                    [i \in DOMAIN @.rows |->
                                        WithCell(WithCell(@.rows[i], COL_SELECT, "True"),
                                                 COL_CAT, "changed")] \o <<>>)]
    /\ call' = [call EXCEPT !.modified = TRUE]
    /\ last_op' = "modify"
    /\ CallFrame

\* a table of the caller: none, an empty one, a table of the formula filter
FrameTables == FormulaTables \cup {NoneDF, DataFrame(AllColumns, <<>>)}

RankMetrics == {COL_RETURN, COL_BETA, "foo"}

InitFrame ==
    /\ combined_data = NoneDF
    /\ hub24_apir_codes = <<>>
    /\ hub24_filtered = NoneDF
    /\ filtered_selection = NoneDF
    /\ formula = EmptyFormula
    /\ formula_result = NoResult
    /\ filter_result = NoFilterResult
    /\ current_data_averages = NoAverages
    /\ selection_df = NoneDF
    /\ hub24_pdf = NoPdf
    /\ extract_result = NoExtractResult
    /\ uploaded_file = NoFile
    /\ validation = NoValidation
    /\ load_result = NoneDF
    /\ dataframes = <<>>
    /\ asset_class_averages = NoAverages
    /\ last_op = "init"
    /\ sliders = DEFAULT_SLIDERS
    /\ recommended_portfolio = <<>>
    /\ portfolio_allocations = <<>>
    /\ session_state = <<>>
    /\ store_log = <<>>
    /\ objects \in { <<df>> : df \in FrameTables }
    /\ call = NoCall

NextFrame ==
    \/ \E f \in Formulas : ApplyFormulaCall(f)
    \/ PerformanceMetricsCall
    \/ \E metric \in RankMetrics : \E ascending \in BOOLEAN :
           RankInvestmentsCall(metric, ascending)
    \/ \E apir_codes \in { <<>>, <<"AAA001AU">>, <<"ZZZ999AU">> } :
           FilterByApirCall(apir_codes)
    \/ ModifyReturned

SpecFrame == InitFrame /\ [][NextFrame]_vars

\* C22: apply_formula, calculate_performance_metrics, rank_investments and
\* filter_investments_by_apir leave the table they are given as it was, when
\* they return and when they raise; the table apply_formula returns is
\* another object, and changing it does not change the table given
C22_InputUnchanged ==
    /\ (call.fn # "none" /\ ~call.modified) => objects[call.arg] = call.before
    /\ (call.fn = "apply_formula" /\ call.ret # 0) =>
           /\ call.ret # call.arg
           /\ objects[call.arg] = call.before

\* a call has returned a table with rows and the caller has changed it
C22_Witness ==
    /\ call.fn = "apply_formula"
    /\ call.modified
    /\ objects[call.ret].rows # <<>>
    /\ objects[call.ret] # objects[call.arg]

-----------------------------------------------------------------------------
(* Recommended portfolio (pages/5_Data_Analysis.py and                     *)
(* pages/6_Recommended_Portfolio.py)                                       *)
(*                                                                         *)
(* A dictionary is a function of its keys.  An allocation is the number    *)
(* typed in, or the empty string of a blank input.                         *)

\* del dict[key]
Without(dict, key) == [k \in (DOMAIN dict) \ {key} |-> dict[k]]

BlankAllocation == [blank |-> TRUE, x |-> NaN]
Allocation(x) == [blank |-> FALSE, x |-> x]

\* add_to_portfolio: nothing changes when the code is a key already
add_to_portfolio(portfolio, fund_name, fund_apir, fund_category, comments) ==
    IF fund_apir \in DOMAIN portfolio THEN portfolio
    ELSE (fund_apir :> [Name |-> fund_name, APIR |-> fund_apir,
                        Category |-> fund_category, Comments |-> comments])
             @@ portfolio

\* the loop over the rows of the edited table: a row checked and not in the
\* portfolio is added, a row unchecked and in the portfolio is deleted
RECURSIVE ProcessEdited(_, _, _, _)
ProcessEdited(portfolio, rows, selected, comment_input) ==
    IF rows = <<>> THEN portfolio
    ELSE LET row == Head(rows)
             fund_apir == row.v[COL_APIR]
         IN  ProcessEdited(
                 IF fund_apir \in selected /\ fund_apir \notin DOMAIN portfolio
                 THEN add_to_portfolio(portfolio, row.v[COL_NAME], fund_apir,
                                       row.v[COL_CAT], comment_input)
                 ELSE IF fund_apir \notin selected /\ fund_apir \in DOMAIN portfolio
                 THEN Without(portfolio, fund_apir)
                 ELSE portfolio,
                 Tail(rows), selected, comment_input)

\* the analysis view after the user has left the boxes of `selected` checked
EditSelection(selected, comment_input) ==
    /\ ~combined_data.isNone /\ ~empty(combined_data)
    /\ selected \subseteq Range(ColumnValues(display_data.rows, COL_APIR))
    /\ recommended_portfolio' =
           ProcessEdited(recommended_portfolio, display_data.rows, selected, comment_input)
    /\ last_op' = "select"
    /\ UNCHANGED <<combined_data, hub24_apir_codes, hub24_filtered, filtered_selection,
                   formula, formula_result, filter_result, current_data_averages,
                   selection_df, portfolio_allocations>>
    /\ UNCHANGED <<extractVars, loaderVars, sliders, storageVars, heapVars>>

\* Unselect All on the analysis view
UnselectAll ==
    /\ ~combined_data.isNone /\ ~empty(combined_data)
    /\ recommended_portfolio' = <<>>
    /\ last_op' = "unselect_all"
    /\ UNCHANGED <<combined_data, hub24_apir_codes, hub24_filtered, filtered_selection,
                   formula, formula_result, filter_result, current_data_averages,
                   selection_df, portfolio_allocations>>
    /\ UNCHANGED <<extractVars, loaderVars, sliders, storageVars, heapVars>>

\* remove_from_portfolio on the portfolio page, which shows the funds only
\* when the portfolio is not empty
RemoveFromPortfolio(apir_code) ==
    /\ apir_code \in DOMAIN recommended_portfolio
    /\ recommended_portfolio' = Without(recommended_portfolio, apir_code)
    /\ portfolio_allocations' =
           IF apir_code \in DOMAIN portfolio_allocations
           THEN Without(portfolio_allocations, apir_code)
           ELSE portfolio_allocations
    /\ last_op' = "remove"
    /\ UNCHANGED <<combined_data, hub24_apir_codes, hub24_filtered, filtered_selection,
                   formula, formula_result, filter_result, current_data_averages,
                   selection_df>>
    /\ UNCHANGED <<extractVars, loaderVars, sliders, storageVars, heapVars>>

\* a run of the portfolio page in which the input of one fund is set: the
\* allocation of every fund of the portfolio is written, the other inputs
\* showing the allocation stored or nothing
SetAllocation(apir, new_allocation) ==
    /\ apir \in DOMAIN recommended_portfolio
    /\ portfolio_allocations' =
           [a \in (DOMAIN recommended_portfolio) \cup (DOMAIN portfolio_allocations) |->
               IF a = apir THEN new_allocation
               ELSE IF a \in DOMAIN portfolio_allocations THEN portfolio_allocations[a]
               ELSE BlankAllocation] @@ <<>>
    /\ last_op' = "allocate"
    /\ UNCHANGED <<combined_data, hub24_apir_codes, hub24_filtered, filtered_selection,
                   formula, formula_result, filter_result, current_data_averages,
                   selection_df, recommended_portfolio>>
    /\ UNCHANGED <<extractVars, loaderVars, sliders, storageVars, heapVars>>

\* the funds of the table shown
PortfolioTable ==
    DataFrame(AllColumns,
              [i \in 1..MaxFunds |-> MkRow(i - 1, FundName(i), FundApir(i), "X", Rat(5, 1),
                                           Rat(1, 1), Rat(1, 1), Rat(10, 1), Rat(1, 2))])

AllocationValues == { BlankAllocation, Allocation(Rat(10, 1)), Allocation(Rat(50, 1)) }

InitPortfolio ==
    /\ combined_data = PortfolioTable
    /\ hub24_apir_codes = <<>>
    /\ hub24_filtered = NoneDF
    /\ filtered_selection = NoneDF
    /\ formula = EmptyFormula
    /\ formula_result = NoResult
    /\ filter_result = NoFilterResult
    /\ current_data_averages = NoAverages
    /\ selection_df = NoneDF
    /\ hub24_pdf = NoPdf
    /\ extract_result = NoExtractResult
    /\ uploaded_file = NoFile
    /\ validation = NoValidation
    /\ load_result = NoneDF
    /\ dataframes = <<combined_data>>
    /\ asset_class_averages = calculate_asset_class_averages(combined_data)
    /\ last_op = "init"
    /\ InitPages

NextPortfolio ==
    \/ \E selected \in SUBSET { FundApir(i) : i \in 1..MaxFunds } :
           EditSelection(selected, "")
    \/ UnselectAll
    \/ \E i \in 1..MaxFunds : RemoveFromPortfolio(FundApir(i))
    \/ \E i \in 1..MaxFunds : \E x \in AllocationValues : SetAllocation(FundApir(i), x)

SpecPortfolio == InitPortfolio /\ [][NextPortfolio]_vars

\* C29: every key of portfolio_allocations is a key of recommended_portfolio
C29_AllocationsWithinPortfolio ==
    (DOMAIN portfolio_allocations) \subseteq (DOMAIN recommended_portfolio)

-----------------------------------------------------------------------------
(* Storage helpers (utils/data_storage.py)                                 *)
(*                                                                         *)
(* A stored value is a record with its kind: a table (kept by a name and   *)
(* its number of rows), None, a flag, the bytes of a pickled table.        *)

NoneValue == [kind |-> "None"]
TrueValue == [kind |-> "bool", b |-> TRUE]
FalseValue == [kind |-> "bool", b |-> FALSE]
StoredFrame(id, n) == [kind |-> "df", id |-> id, len |-> n]

\* the default given to get_dataframe
DEFAULT_VALUE == [kind |-> "default"]

\* len(df) < 1000
SMALL_ROWS == 1000

\* st.session_state.get(key, default) and st.session_state[key] = value
Get(state, key, default) == IF key \in DOMAIN state THEN state[key] ELSE default
Put(state, key, value) == (key :> value) @@ state

\* pickle.dumps(df) and pickle.loads(bytes_data)
dataframe_to_bytes(df) ==
    IF df = NoneValue THEN NoneValue ELSE [kind |-> "bytes", pickled |-> df]
bytes_to_dataframe(bytes_data) ==
    IF bytes_data = NoneValue THEN NoneValue ELSE bytes_data.pickled

store_dataframe(state, key, df) ==
    IF df # NoneValue
    THEN IF df.len < SMALL_ROWS
         THEN Put(state, key, df)
         ELSE Put(Put(state, key \o "_bytes", dataframe_to_bytes(df)),
                  key \o "_is_bytes", TrueValue)
    ELSE Put(state, key, NoneValue)

get_dataframe(state, key, default) ==
    IF Get(state, key \o "_is_bytes", FalseValue) = TrueValue
    THEN LET bytes_data == Get(state, key \o "_bytes", NoneValue)
         IN  IF bytes_data # NoneValue THEN bytes_to_dataframe(bytes_data) ELSE default
    ELSE Get(state, key, default)

\* a call of store_dataframe
StoreDataframe(key, df) ==
    /\ session_state' = store_dataframe(session_state, key, df)
    /\ store_log' = Put(store_log, key, df)
    /\ last_op' = "store_dataframe"
    /\ UNCHANGED <<combined_data, hub24_apir_codes, hub24_filtered, filtered_selection,
                   formula, formula_result, filter_result, current_data_averages,
                   selection_df>>
    /\ UNCHANGED <<extractVars, loaderVars, sliders, portfolioVars, heapVars>>

\* a call of clear_all_data: every key of the session state is deleted, the
\* pages give the deleted keys their initial values again
ClearAllData ==
    /\ session_state' = <<>>
    /\ store_log' = <<>>
    /\ combined_data' = NoneDF
    /\ hub24_apir_codes' = <<>>
    /\ hub24_filtered' = NoneDF
    /\ filtered_selection' = NoneDF
    /\ formula' = EmptyFormula
    /\ dataframes' = <<>>
    /\ asset_class_averages' = NoAverages
    /\ recommended_portfolio' = <<>>
    /\ portfolio_allocations' = <<>>
    /\ last_op' = "clear_all_data"
    /\ UNCHANGED <<formula_result, filter_result, current_data_averages, selection_df,
                   uploaded_file, validation, load_result, sliders>>
    /\ UNCHANGED <<extractVars, heapVars>>

StorageKeys == {"combined_data", "hub24_filtered"}

\* tables below and at the threshold, and None
StoredValues ==
    { StoredFrame(id, n) : id \in 1..MaxStoredFrames, n \in {SMALL_ROWS - 1, SMALL_ROWS} }
        \cup {NoneValue}

InitStorage ==
    /\ combined_data = NoneDF
    /\ hub24_apir_codes = <<>>
    /\ hub24_filtered = NoneDF
    /\ filtered_selection = NoneDF
    /\ formula = EmptyFormula
    /\ formula_result = NoResult
    /\ filter_result = NoFilterResult
    /\ current_data_averages = NoAverages
    /\ selection_df = NoneDF
    /\ hub24_pdf = NoPdf
    /\ extract_result = NoExtractResult
    /\ uploaded_file = NoFile
    /\ validation = NoValidation
    /\ load_result = NoneDF
    /\ dataframes = <<>>
    /\ asset_class_averages = NoAverages
    /\ last_op = "init"
    /\ InitPages

NextStorage ==
    \/ \E key \in StorageKeys : \E df \in StoredValues : StoreDataframe(key, df)
    \/ ClearAllData

SpecStorage == InitStorage /\ [][NextStorage]_vars

\* C30: for every key, get_dataframe gives the value of the most recent
\* store_dataframe call on the key, and the default when nothing was stored
\* since the start or since clear_all_data
C30_GetReturnsLastStored ==
    \A key \in StorageKeys :
        get_dataframe(session_state, key, DEFAULT_VALUE) =
            IF key \in DOMAIN store_log THEN store_log[key] ELSE DEFAULT_VALUE

====
